---- MODULE Spec2Model ----
(***************************************************************************)
(* A model of wxer_lib: the unit system (units.rs), the per-layer and      *)
(* per-observation derived quantities (wxentry.rs), the present-weather    *)
(* parser and combinator (wxentry/components.rs), the sparse store         *)
(* (wxentry/hashmap.rs) and the comfort index (comfort.rs).                *)
(*                                                                         *)
(* Numbers are IEEE-754 binary32 values, as the source's f32: a finite     *)
(* value is [neg, m, e] and stands for (-1)^neg * m * 2^e, with m = 0 or   *)
(* 2^23 <= m < 2^24.  Addition, subtraction, multiplication and division   *)
(* round to nearest, ties to even, as the hardware does.  powf and exp are *)
(* tabulated at the arguments the model gives them; results of the other   *)
(* transcendental formulas (ln, log10) are kept as terms that name the     *)
(* formula and its arguments.                                              *)
(***************************************************************************)
EXTENDS Integers, Sequences, FiniteSets, TLC

\* ------------------------------------------------------------------ f32

F32Zero == [neg |-> FALSE, m |-> 0, e |-> 0]

BitLen(x) ==
    IF x = 0 THEN 0
    ELSE CHOOSE n \in 1..30 : 2^(n-1) <= x /\ (n = 30 \/ x < 2^n)

\* Each step of an operation hands its intermediate results to the next
\* step as arguments.

F32Carry(neg, q1, e) ==
    IF q1 = 2^24 THEN [neg |-> neg, m |-> 2^23, e |-> e + 1]
    ELSE [neg |-> neg, m |-> q1, e |-> e]

F32RoundQ(neg, q, r, half, sticky, e) ==
    F32Carry(neg,
             IF r > half \/ (r = half /\ (sticky \/ q % 2 = 1)) THEN q + 1 ELSE q,
             e)

F32RoundN(neg, x, sticky, e, n) ==
    IF n <= 24
    THEN [neg |-> neg, m |-> x * 2^(24-n), e |-> e - (24-n)]
    ELSE F32RoundQ(neg, x \div 2^(n-24), x % 2^(n-24), 2^(n-25), sticky,
                   e + (n-24))

\* (x + s) * 2^e rounded to 24 bits, where 0 <= s < 1 and s > 0 iff sticky.
F32Round(neg, x, sticky, e) ==
    IF x = 0 THEN F32Zero ELSE F32RoundN(neg, x, sticky, e, BitLen(x))

F32FromInt(n) == F32Round(n < 0, IF n < 0 THEN -n ELSE n, FALSE, 0)

F32Neg(a) == IF a.m = 0 THEN a ELSE [a EXCEPT !.neg = ~a.neg]

F32AddAligned(neg, same, aq, bq, sticky, e) ==
    F32Round(neg,
             IF same THEN aq + bq ELSE aq - bq - (IF sticky THEN 1 ELSE 0),
             sticky, e)

\* sh: the bits of the smaller operand that fall below the guard bits.
F32AddShifted(big, small, g, sh) ==
    F32AddAligned(big.neg, big.neg = small.neg, big.m * 2^g,
                  IF sh >= 25 THEN 0 ELSE small.m \div 2^sh,
                  IF sh >= 25 THEN TRUE ELSE small.m % 2^sh # 0,
                  big.e - g)

F32AddOrdered(big, small, d) ==
    F32AddShifted(big, small, IF d < 5 THEN d ELSE 5, IF d < 5 THEN 0 ELSE d - 5)

F32Add(a, b) ==
    IF a.m = 0 THEN b
    ELSE IF b.m = 0 THEN a
    ELSE IF a.e > b.e \/ (a.e = b.e /\ a.m >= b.m)
         THEN F32AddOrdered(a, b, a.e - b.e)
         ELSE F32AddOrdered(b, a, b.e - a.e)

F32Sub(a, b) == F32Add(a, F32Neg(b))

F32MulParts(neg, hi, lo, e) ==
    F32Round(neg, hi * 4 + lo \div 2^22, lo % 2^22 # 0, e)

F32MulLow(neg, hh, mid, lowsum, e) ==
    F32MulParts(neg, hh + mid \div 4096 + lowsum \div 2^24, lowsum % 2^24, e)

F32MulSum(neg, hh, mid, ll, e) ==
    F32MulLow(neg, hh, mid, (mid % 4096) * 4096 + ll, e)

\* The 48-bit product of the significands, from 12-bit halves.
F32MulLimbs(neg, ah, al, bh, bl, e) ==
    F32MulSum(neg, ah * bh, ah * bl + al * bh, al * bl, e)

F32Mul(a, b) ==
    IF a.m = 0 \/ b.m = 0 THEN F32Zero
    ELSE F32MulLimbs(a.neg # b.neg, a.m \div 4096, a.m % 4096,
                     b.m \div 4096, b.m % 4096, a.e + b.e + 22)

\* k further quotient bits of r / bm, by long division.
RECURSIVE DivStep(_, _, _, _)
DivStep(r, q, bm, k) ==
    IF k = 0 THEN <<q, r>>
    ELSE IF 2 * r >= bm THEN DivStep(2 * r - bm, 2 * q + 1, bm, k - 1)
    ELSE DivStep(2 * r, 2 * q, bm, k - 1)

F32DivQR(neg, qr, e) == F32Round(neg, qr[1], qr[2] # 0, e)

F32Div(a, b) ==
    IF a.m = 0 THEN F32Zero
    ELSE F32DivQR(a.neg # b.neg, DivStep(a.m % b.m, a.m \div b.m, b.m, 26),
                  a.e - b.e - 26)

F32Negative(d) == d.m # 0 /\ d.neg
F32Lt(a, b) == F32Negative(F32Sub(a, b))
F32Gt(a, b) == F32Lt(b, a)
F32Ge(a, b) == ~F32Lt(a, b)

\* The f32 nearest to the decimal num/den (both exactly representable).
F32Lit(num, den) == F32Div(F32FromInt(num), F32FromInt(den))

\* ------------------------------------------------------------- units.rs

coefficient(unit) ==
    CASE unit = "Kph"     -> F32FromInt(1)
      [] unit = "Mph"     -> F32Lit(1609344, 1000000)
      [] unit = "Knots"   -> F32Lit(1852, 1000)
      [] unit = "Mps"     -> F32Lit(36, 10)
      [] unit = "Percent" -> F32Lit(1, 100)
      [] unit = "Decimal" -> F32FromInt(1)
      [] unit = "Milli"   -> F32Lit(1, 1000)
      [] unit = "HPa"     -> F32FromInt(1)
      [] unit = "Mbar"    -> F32FromInt(1)
      [] unit = "Psi"     -> F32Lit(6894757, 100000)
      [] unit = "Atm"     -> F32Lit(101325, 100)
      [] unit = "InHg"    -> F32Lit(3386389, 100000)
      [] unit = "Kilometer"    -> F32FromInt(1000)
      [] unit = "Mile"         -> F32Lit(1609344, 1000)
      [] unit = "NauticalMile" -> F32FromInt(1852)
      [] unit = "Meter"   -> F32FromInt(1)
      [] unit = "Feet"    -> F32Lit(3048, 10000)

\* ProportionalUnit::convert: the value times the source unit's coefficient,
\* divided by the target unit's coefficient (also when the units are equal).
ProportionalConvert(q, unit) ==
    LET value_as_default_unit == F32Mul(q.value, coefficient(q.unit))
    IN [value |-> F32Div(value_as_default_unit, coefficient(unit)), unit |-> unit]

\* The value in Kelvin with the Celsius offset cut to whole degrees.
value_in_kelvin_coarse(t) ==
    CASE t.unit = "Kelvin"     -> t.value
      [] t.unit = "Celsius"    -> F32Add(t.value, F32FromInt(273))
      [] t.unit = "Fahrenheit" ->
            F32Mul(F32Add(t.value, F32Lit(45967, 100)), F32Lit(5, 9))

\* Temperature::convert, first half: the value in Kelvin.
value_in_kelvin(t) ==
    CASE t.unit = "Kelvin"     -> t.value
      [] t.unit = "Celsius"    -> F32Add(t.value, F32Lit(27315, 100))
      [] t.unit = "Fahrenheit" ->
            F32Mul(F32Add(t.value, F32Lit(45967, 100)), F32Lit(5, 9))

\* Temperature::convert, second half: from Kelvin to the new unit.
value_in_new_unit(k, unit) ==
    CASE unit = "Kelvin"     -> k
      [] unit = "Celsius"    -> F32Sub(k, F32Lit(27315, 100))
      [] unit = "Fahrenheit" ->
            F32Sub(F32Mul(k, F32Lit(9, 5)), F32Lit(45967, 100))

\* Temperature::convert: through Kelvin, also when the units are equal.
TemperatureConvert(t, unit) ==
    [value |-> value_in_new_unit(value_in_kelvin(t), unit), unit |-> unit]

\* UnitInternal::value_in for the two kinds of quantity.
value_in(q, unit) == ProportionalConvert(q, unit).value
temperature_value_in(t, unit) == TemperatureConvert(t, unit).value

New(value, unit) == [value |-> value, unit |-> unit]

\* The units of each family of quantities.
UnitsOf(family) ==
    CASE family = "Temperature" -> {"Kelvin", "Celsius", "Fahrenheit"}
      [] family = "Speed"       -> {"Mph", "Kph", "Knots", "Mps"}
      [] family = "Pressure"    -> {"HPa", "Mbar", "InHg", "Psi", "Atm"}
      [] family = "Distance"    ->
            {"Meter", "Kilometer", "Feet", "Mile", "NauticalMile"}

\* UnitInternal::convert of the family's type.
convert(family, q, unit) ==
    IF family = "Temperature" THEN TemperatureConvert(q, unit)
    ELSE ProportionalConvert(q, unit)

\* f32::abs
F32Abs(a) == [a EXCEPT !.neg = FALSE]

\* Add and Mul<f32> for ProportionalUnit.
ProportionalAdd(self, rhs) ==
    [value |-> F32Add(ProportionalConvert(rhs, self.unit).value, self.value),
     unit  |-> self.unit]
ProportionalMul(self, rhs) ==
    [value |-> F32Mul(self.value, rhs), unit |-> self.unit]

\* Sub for ProportionalUnit: the converted right operand minus self.
ProportionalSub(self, rhs) ==
    [value |-> F32Sub(ProportionalConvert(rhs, self.unit).value, self.value),
     unit  |-> self.unit]

\* Option<T>
None == [tag |-> "None"]
Some(v) == [tag |-> "Some", val |-> v]

\* --------------------------------------------- wxentry.rs: WxEntryLayer

\* A layer is what its accessors temperature(), wind_speed() and
\* relative_humidity() return; the derived methods below are the trait's
\* default implementations.

\* An f32 literal of the source, by its bits.
F32Of(neg, m, e) == [neg |-> neg, m |-> m, e |-> e]

\* mph.powf(0.16) at the wind speeds of the model, as value_in(Mph) gives
\* them (4, 5, 6, 7 and 10 mph).
powf_016(mph) ==
    CASE mph = F32Of(FALSE, 8388608, -21)  -> F32Of(FALSE, 10471756, -23)
      [] mph = F32Of(FALSE, 10485761, -21) -> F32Of(FALSE, 10852383, -23)
      [] mph = F32Of(FALSE, 12582912, -21) -> F32Of(FALSE, 11173625, -23)
      [] mph = F32Of(FALSE, 14680063, -21) -> F32Of(FALSE, 11452639, -23)
      [] mph = F32Of(FALSE, 10485761, -20) -> F32Of(FALSE, 12125228, -23)

\* 35.74 + 0.6215*t - 35.75*v_016 + 0.4275*t*v_016
WindChillOf(t, v_016) ==
    F32Add(F32Sub(F32Add(F32Of(FALSE, 9369027, -18),
                         F32Mul(F32Of(FALSE, 10427040, -24), t)),
                  F32Mul(F32Of(FALSE, 9371648, -18), v_016)),
           F32Mul(F32Mul(F32Of(FALSE, 14344520, -25), t), v_016))

\* The NWS wind-chill equation at t degF, mph.
WindChillF(t, mph) == WindChillOf(t, powf_016(mph))

\* const C: the coefficients of the heat-index regression, C[1] to C[9].
HeatIndexC ==
    <<F32Of(TRUE, 11109401, -18), F32Of(FALSE, 8594193, -22),
      F32Of(FALSE, 10636054, -20), F32Of(TRUE, 15083080, -26),
      F32Of(TRUE, 14684128, -31), F32Of(TRUE, 14714872, -28),
      F32Of(FALSE, 10554796, -33), F32Of(FALSE, 14651336, -34),
      F32Of(TRUE, 8752113, -42)>>

\* A sum of f32 terms, added from the left.
RECURSIVE F32Sum(_, _)
F32Sum(acc, terms) ==
    IF terms = <<>> THEN acc ELSE F32Sum(F32Add(acc, Head(terms)), Tail(terms))

\* The heat-index regression at t degF, rh percent.
HeatIndexF(t, rh) ==
    F32Sum(HeatIndexC[1],
           <<F32Mul(HeatIndexC[2], t),
             F32Mul(HeatIndexC[3], rh),
             F32Mul(F32Mul(HeatIndexC[4], t), rh),
             F32Mul(F32Mul(HeatIndexC[5], t), t),
             F32Mul(F32Mul(HeatIndexC[6], rh), rh),
             F32Mul(F32Mul(F32Mul(HeatIndexC[7], t), t), rh),
             F32Mul(F32Mul(F32Mul(HeatIndexC[8], t), rh), rh),
             F32Mul(F32Mul(F32Mul(F32Mul(HeatIndexC[9], t), t), rh), rh)>>)

\* exp at the arguments the Magnus formula has in the model: the
\* temperatures and dewpoints 10, 30, 70, 72 and 90 degF.
exp(x) ==
    CASE x = F32Of(TRUE, 15658417, -24)  -> F32Of(FALSE, 13195219, -25)
      [] x = F32Of(TRUE, 10864658, -27)  -> F32Of(FALSE, 15472647, -24)
      [] x = F32Of(FALSE, 11816660, -23) -> F32Of(FALSE, 8578301, -21)
      [] x = F32Of(FALSE, 12386487, -23) -> F32Of(FALSE, 9181261, -21)
      [] x = F32Of(FALSE, 8653945, -22)  -> F32Of(FALSE, 16507940, -21)

\* (17.625 * t) / (243.03 + t)
MagnusTerm(t) ==
    F32Div(F32Mul(F32Of(FALSE, 9240576, -19), t),
           F32Add(F32Of(FALSE, 15927214, -16), t))

\* rh_from_dewpoint, the default relative_humidity of a layer that has a
\* temperature and a dewpoint.
rh_from_dewpoint(l) ==
    IF l.temperature = None \/ l.dewpoint = None THEN None
    ELSE Some(New(F32Div(exp(MagnusTerm(temperature_value_in(l.dewpoint.val, "Celsius"))),
                         exp(MagnusTerm(temperature_value_in(l.temperature.val, "Celsius")))),
                  "Decimal"))

\* wind_speed_from_wind, the default wind_speed of a layer that has a wind.
wind_speed_from_wind(l) ==
    IF l.wind = None THEN None ELSE Some(l.wind.val.speed)

\* wind_chill_valid with the wind test taken as "at least 3 mph".
wind_chill_valid_at_least(l) ==
    IF l.temperature = None THEN None
    ELSE LET t == temperature_value_in(l.temperature.val, "Fahrenheit") IN
         IF F32Lt(t, F32FromInt(50))
         THEN IF l.wind_speed = None THEN None
              ELSE LET mph == value_in(l.wind_speed.val, "Mph")
                   IN Some(F32Ge(mph, F32FromInt(3)))
         ELSE Some(FALSE)

wind_chill_valid(l) ==
    IF l.temperature = None THEN None
    ELSE LET t == temperature_value_in(l.temperature.val, "Fahrenheit") IN
         IF F32Lt(t, F32FromInt(50))
         THEN IF l.wind_speed = None THEN None
              ELSE LET mph == value_in(l.wind_speed.val, "Mph")
                   IN Some(F32Gt(mph, F32FromInt(3)))
         ELSE Some(FALSE)

wind_chill(l) ==
    IF l.wind_speed = None \/ l.temperature = None THEN None
    ELSE LET mph == value_in(l.wind_speed.val, "Mph")
             t   == temperature_value_in(l.temperature.val, "Fahrenheit")
         IN IF wind_chill_valid(l) = Some(TRUE)
            THEN Some(New(WindChillF(t, mph), "Fahrenheit"))
            ELSE None

heat_index_valid(l) ==
    IF l.temperature = None THEN None
    ELSE LET t == temperature_value_in(l.temperature.val, "Fahrenheit") IN
         IF F32Gt(t, F32FromInt(80))
         THEN IF l.relative_humidity = None THEN None
              ELSE LET rh == value_in(l.relative_humidity.val, "Percent")
                   IN Some(F32Gt(rh, F32FromInt(40)))
         ELSE Some(FALSE)

heat_index(l) ==
    IF l.temperature = None \/ l.relative_humidity = None THEN None
    ELSE LET t  == temperature_value_in(l.temperature.val, "Fahrenheit")
             rh == value_in(l.relative_humidity.val, "Percent")
         IN IF heat_index_valid(l) = Some(TRUE)
            THEN Some(New(HeatIndexF(t, rh), "Fahrenheit"))
            ELSE None

\* apparent_temp's match with an unknown validity read as "does not apply".
apparent_temp_match_lenient(l, hi, wc) ==
    CASE hi = Some(TRUE) -> heat_index(l)
      [] hi # Some(TRUE) /\ wc = Some(TRUE) -> wind_chill(l)
      [] OTHER -> l.temperature

\* The match of apparent_temp on (heat_index_valid, wind_chill_valid).
apparent_temp_match(l, hi, wc) ==
    CASE hi = Some(TRUE) -> heat_index(l)
      [] hi # Some(TRUE) /\ wc = Some(TRUE) -> wind_chill(l)
      [] hi = Some(FALSE) /\ wc = Some(FALSE) -> l.temperature
      [] OTHER -> None

apparent_temp(l) ==
    IF l.temperature = None THEN None
    ELSE apparent_temp_match(l, heat_index_valid(l), wind_chill_valid(l))

\* ------------------------------------------------- wxentry.rs: WxEntry

\* The station of the observations.
station ==
    [name     |-> "KPSM",
     altitude |-> New(F32FromInt(30), "Meter"),
     coords   |-> <<F32FromInt(43), F32FromInt(-71)>>]

latitude == station.coords[1]

\* A call that never returns: the stack is exhausted and the process aborts.
StackOverflow == [tag |-> "StackOverflow"]

\* Layer::height_agl of wxentry.rs, for the layers an entry is asked for.
Layer_height_agl(l, station_altitude) ==
    IF station_altitude = StackOverflow THEN StackOverflow
    ELSE CASE l = "Indoor"      -> New(F32FromInt(1), "Meter")
           [] l = "NearSurface" -> New(F32FromInt(2), "Meter")
           [] l = "SeaLevel"    -> ProportionalMul(station_altitude, F32FromInt(-1))

AltitudeAdd(h, altitude) ==
    IF h = StackOverflow THEN StackOverflow ELSE ProportionalAdd(h, altitude)

\* The default height accessors call each other; stack is the number of
\* frames left.
RECURSIVE height_agl(_, _), height_msl(_, _)
height_agl(l, stack) ==
    IF stack = 0 THEN StackOverflow
    ELSE Layer_height_agl(l.layer, height_msl(l, stack - 1))

height_msl(l, stack) ==
    IF stack = 0 THEN StackOverflow
    ELSE AltitudeAdd(height_agl(l, stack - 1), station.altitude)

\* The value of the sea-level reduction (powf, log10, cos) at p mbar, t degC,
\* h metres and the latitude.
SlpF(p, t, h, lat) ==
    IF h = StackOverflow THEN StackOverflow
    ELSE Some(New([fn |-> "slp", p |-> p, t |-> t, h |-> value_in(h, "Meter"),
                   latitude |-> lat], "Mbar"))

StackLimit == 4

slp(l, lat) ==
    IF l.pressure = None \/ l.temperature = None THEN None
    ELSE SlpF(value_in(l.pressure.val, "Mbar"),
              temperature_value_in(l.temperature.val, "Celsius"),
              height_msl(l, StackLimit), lat)

\* formulae::altimeter_to_slp (it uses exp).
AltimeterToSlpF(altimeter, altitude, temperature) ==
    [fn |-> "altimeter_to_slp", altimeter |-> altimeter, altitude |-> altitude,
     temperature |-> temperature]

mslp_from_altimeter(e) ==
    IF e.layers["NearSurface"] = None THEN None
    ELSE IF e.altimeter = None THEN None
    ELSE IF e.layers["NearSurface"].val.temperature = None THEN None
    ELSE Some(AltimeterToSlpF(e.altimeter.val, station.altitude,
                              e.layers["NearSurface"].val.temperature.val))

\* Option::or, its argument already evaluated.
Or(a, b) == IF a = None THEN b ELSE a

\* self.layer(l).map(|x| x.pressure()).flatten()
layer_pressure(e, l) ==
    IF e.layers[l] = None THEN None ELSE e.layers[l].val.pressure

\* self.layer(l).map(|x| x.slp(self.latitude())).flatten()
layer_slp(e, l) ==
    IF e.layers[l] = None THEN None ELSE slp(e.layers[l].val, latitude)

\* The four options are computed before any of them is looked at.
best_slp_or(option_1, option_2, option_3, option_4) ==
    IF option_2 = StackOverflow \/ option_3 = StackOverflow THEN StackOverflow
    ELSE Or(Or(Or(option_1, option_2), option_3), option_4)

best_slp(e) ==
    best_slp_or(layer_pressure(e, "SeaLevel"), layer_slp(e, "NearSurface"),
                layer_slp(e, "Indoor"), mslp_from_altimeter(e))

\* ------------------------------------------ wxentry/components.rs: Wx

\* enum Intensity, in the order PartialOrd derives.
IntensityOrder == <<"None", "Nearby", "VeryLight", "Light", "Medium", "Heavy">>
Intensity == {IntensityOrder[k] : k \in DOMAIN IntensityOrder}
IntensityRank(i) == CHOOSE k \in DOMAIN IntensityOrder : IntensityOrder[k] = i

\* The lesser of two intensities.
least_intense(self, other) ==
    IF IntensityRank(self) < IntensityRank(other) THEN self ELSE other

most_intense(self, other) ==
    IF IntensityRank(self) > IntensityRank(other) THEN self ELSE other

Qualifiers ==
    {"blowing", "freezing", "showers", "squalls", "thunderstorm",
     "visibility_inhibitor", "fog", "smoke"}
Categories ==
    {"rain", "snow", "falling_ice", "dust", "sand", "funnel_cloud", "unknown"}

Wx_none ==
    [blowing |-> FALSE, freezing |-> FALSE, showers |-> FALSE,
     squalls |-> FALSE, thunderstorm |-> FALSE, visibility_inhibitor |-> FALSE,
     fog |-> FALSE, smoke |-> FALSE,
     unknown |-> "None", rain |-> "None", snow |-> "None",
     falling_ice |-> "None", dust |-> "None", sand |-> "None",
     funnel_cloud |-> "None"]

combine(self, other) ==
    [blowing      |-> self.blowing \/ other.blowing,
     freezing     |-> self.freezing \/ other.freezing,
     showers      |-> self.showers \/ other.showers,
     squalls      |-> self.squalls \/ other.squalls,
     thunderstorm |-> self.thunderstorm \/ other.thunderstorm,
     visibility_inhibitor |-> self.visibility_inhibitor \/ other.visibility_inhibitor,
     fog          |-> self.fog \/ other.fog,
     smoke        |-> self.smoke \/ other.smoke,
     rain         |-> most_intense(self.rain, other.rain),
     snow         |-> most_intense(self.snow, other.snow),
     falling_ice  |-> most_intense(self.falling_ice, other.falling_ice),
     dust         |-> most_intense(self.dust, other.dust),
     sand         |-> most_intense(self.sand, other.sand),
     funnel_cloud |-> most_intense(self.funnel_cloud, other.funnel_cloud),
     unknown      |-> most_intense(self.unknown, other.unknown)]

\* ------------------------------------------------------ Wx::parse_code

\* A code is a sequence of characters.  The alternatives of the regular
\* expression, in its order; the last alternative, /+, is a run of slashes.
Alternatives ==
    <<<<"-">>, <<"+">>, <<"B", "C">>, <<"B", "L">>, <<"B", "R">>,
      <<"D", "R">>, <<"D", "S">>, <<"D", "U">>, <<"D", "Z">>, <<"F", "C">>,
      <<"F", "G">>, <<"F", "U">>, <<"F", "Z">>, <<"G", "R">>, <<"G", "S">>,
      <<"H", "Z">>, <<"I", "C">>, <<"M", "I">>, <<"N", "S", "W">>,
      <<"P", "L">>, <<"P", "O">>, <<"P", "R">>, <<"P", "Y">>, <<"R", "A">>,
      <<"S", "A">>, <<"S", "G">>, <<"S", "H">>, <<"S", "N">>, <<"S", "Q">>,
      <<"S", "S">>, <<"T", "S">>, <<"U", "P">>, <<"V", "A">>, <<"V", "C">>>>

StartsAt(code, i, alt) ==
    /\ i + Len(alt) - 1 <= Len(code)
    /\ \A k \in 1..Len(alt) : code[i + k - 1] = alt[k]

RECURSIVE SlashRun(_, _)
SlashRun(code, i) ==
    IF i <= Len(code) /\ code[i] = "/" THEN 1 + SlashRun(code, i + 1) ELSE 0

\* The length of the match starting at position i, 0 if there is none: the
\* first alternative that matches there.
MatchLen(code, i) ==
    IF \E n \in DOMAIN Alternatives : StartsAt(code, i, Alternatives[n])
    THEN Len(Alternatives[CHOOSE n \in DOMAIN Alternatives :
                 /\ StartsAt(code, i, Alternatives[n])
                 /\ \A k \in 1..(n-1) : ~StartsAt(code, i, Alternatives[k])])
    ELSE SlashRun(code, i)

\* Regex::find_iter: the leftmost matches, one after the other.
RECURSIVE find_iter(_, _)
find_iter_from(code, i, n) ==
    IF n = 0 THEN find_iter(code, i + 1)
    ELSE <<SubSeq(code, i, i + n - 1)>> \o find_iter(code, i + n)

find_iter(code, i) ==
    IF i > Len(code) THEN <<>> ELSE find_iter_from(code, i, MatchLen(code, i))

contains(matches, token) == \E k \in DOMAIN matches : matches[k] = token

\* '+' listed before '-'.
general_intensity_heavy_first(matches) ==
    IF contains(matches, <<"V", "C">>) THEN "Nearby"
    ELSE IF contains(matches, <<"+">>) THEN "Heavy"
    ELSE IF contains(matches, <<"-">>) THEN "Light"
    ELSE "Medium"

general_intensity(matches) ==
    IF contains(matches, <<"V", "C">>) THEN "Nearby"
    ELSE IF contains(matches, <<"-">>) THEN "Light"
    ELSE IF contains(matches, <<"+">>) THEN "Heavy"
    ELSE "Medium"

parse_flags(matches) ==
    [Wx_none EXCEPT
        !.freezing = contains(matches, <<"F", "Z">>),
        !.showers = contains(matches, <<"S", "H">>),
        !.blowing = \/ contains(matches, <<"B", "L">>)
                    \/ contains(matches, <<"S", "S">>)
                    \/ contains(matches, <<"P", "O">>)
                    \/ contains(matches, <<"D", "S">>),
        !.squalls = contains(matches, <<"S", "Q">>),
        !.thunderstorm = contains(matches, <<"T", "S">>),
        !.fog = contains(matches, <<"B", "R">>) \/ contains(matches, <<"F", "G">>),
        !.smoke = contains(matches, <<"F", "U">>) \/ contains(matches, <<"H", "Z">>)]

\* Drizzle taken at the general intensity.
parse_rain_general(wx, matches, general) ==
    IF contains(matches, <<"R", "A">>) \/ contains(matches, <<"D", "Z">>)
    THEN [wx EXCEPT !.rain = general]
    ELSE wx

parse_rain(wx, matches, general) ==
    IF contains(matches, <<"R", "A">>) THEN [wx EXCEPT !.rain = general]
    ELSE IF contains(matches, <<"D", "Z">>) THEN [wx EXCEPT !.rain = "VeryLight"]
    ELSE wx

parse_dust(wx, matches, general) ==
    IF contains(matches, <<"D", "U">>) THEN [wx EXCEPT !.dust = general]
    ELSE IF contains(matches, <<"D", "S">>) THEN [wx EXCEPT !.dust = "Heavy"]
    ELSE wx

parse_sand(wx, matches, general) ==
    IF contains(matches, <<"S", "A">>) \/ contains(matches, <<"P", "O">>)
    THEN [wx EXCEPT !.sand = general]
    ELSE IF contains(matches, <<"S", "S">>) THEN [wx EXCEPT !.sand = "Heavy"]
    ELSE wx

parse_falling_ice(wx, matches, general) ==
    IF contains(matches, <<"P", "L">>) THEN [wx EXCEPT !.falling_ice = general]
    ELSE IF contains(matches, <<"G", "R">>) THEN [wx EXCEPT !.sand = "Heavy"]
    ELSE wx

parse_unknown(wx, matches, general) ==
    IF contains(matches, <<"U", "P">>) THEN [wx EXCEPT !.unknown = general]
    ELSE wx

parse_snow(wx, matches, general) ==
    IF \/ contains(matches, <<"S", "N">>)
       \/ contains(matches, <<"G", "S">>)
       \/ contains(matches, <<"I", "C">>)
       \/ contains(matches, <<"S", "G">>)
    THEN [wx EXCEPT !.snow = general]
    ELSE wx

parse_funnel_cloud(wx, matches, general) ==
    IF contains(matches, <<"F", "C">>) THEN [wx EXCEPT !.funnel_cloud = general]
    ELSE wx

\* The assignments of parse_code, in their order.
parse_matches(matches, general) ==
    parse_funnel_cloud(
      parse_snow(
        parse_unknown(
          parse_falling_ice(
            parse_sand(
              parse_dust(
                parse_rain(parse_flags(matches), matches, general),
                matches, general),
              matches, general),
            matches, general),
          matches, general),
        matches, general),
      matches, general)

parse_tokens(matches) == parse_matches(matches, general_intensity(matches))

parse_code(code) == parse_tokens(find_iter(code, 1))

\* ------------------------------------------------- units.rs: Direction

\* Result<T>
Ok(v) == [tag |-> "Ok", val |-> v]
Err == [tag |-> "Err"]

\* The tens digit rounded down.
sanitize_degrees_truncating(degrees) ==
    IF degrees > 360 THEN Err ELSE Ok(((degrees \div 10) * 10) % 360)

\* u16 arithmetic.
sanitize_degrees(degrees) ==
    IF degrees > 360 THEN Err
    ELSE IF degrees % 10 # 0
         THEN Ok(((((degrees + 5) % 2^16) \div 10) * 10) % 360)
         ELSE Ok(degrees % 360)

\* A Direction is its degrees.
from_degrees(degrees) == sanitize_degrees(degrees)

\* ------------------------------------------------- wxentry/hashmap.rs

\* The keys of the model's store: the near-surface layer and the parameters
\* of the quasi-calculated accessors.
StoreParams ==
    {"Temperature", "Dewpoint", "RelativeHumidity",
     "WindSpeed", "WindDirection", "Wind"}
StoreKeys == {<<"NearSurface", p>> : p \in StoreParams}

\* Box<dyn Any>: a value and its type.
Box(type, val) == [type |-> type, val |-> val]

\* HashMapWx::new: no key has a value.
HashMapWx_new == [k \in StoreKeys |-> None]

\* An insert that keeps the value a key already has.
put_if_absent(data, l, param, box) ==
    IF data[<<l, param>>] = None THEN [data EXCEPT ![<<l, param>>] = Some(box)]
    ELSE data

put(data, l, param, box) == [data EXCEPT ![<<l, param>>] = Some(box)]

put_opt(data, l, param, box) ==
    IF box = None THEN data ELSE put(data, l, param, box.val)

\* get::<U>: absent without the key, absent when the value is no U.
get(data, l, param, U) ==
    IF <<l, param>> \notin DOMAIN data THEN None
    ELSE IF data[<<l, param>>] = None THEN None
    ELSE IF data[<<l, param>>].val.type # U THEN None
    ELSE Some(data[<<l, param>>].val.val)

\* HashMapWx::layer: a view of one layer of the store.
LayerHash(l, data) == [layer |-> l, data |-> data]

LayerHash_get(h, param, U) == get(h.data, h.layer, param, U)

\* HashMapWx::layers: the layers some key of the store names.
HashMapWx_layers(data) == {k[1] : k \in {key \in DOMAIN data : data[key] # None}}

\* HashMapWx::layer: every layer has a view.
HashMapWx_layer(data, l) == Some(LayerHash(l, data))

\* The key and the type of the observation-level accessors of the store.
HashMapWx_top(data, field) ==
    CASE field = "altimeter"    -> get(data, "All", "Altimeter", "Pressure")
      [] field = "cape"         -> get(data, "All", "Cape", "SpecEnergy")
      [] field = "skycover"     -> get(data, "All", "SkyCover", "SkyCoverage")
      [] field = "wx_codes"     -> get(data, "All", "WxCodes", "Vec<String>")
      [] field = "raw_metar"    -> get(data, "All", "RawMetar", "String")
      [] field = "precip_today" -> get(data, "All", "PrecipToday", "Precip")
      [] field = "precip"       -> get(data, "All", "Precip", "Precip")


\* The values of the Magnus formulas (they use ln and exp).
DewpointFromRhF(t, rh) == [fn |-> "dewpoint_from_rh", t |-> t, rh |-> rh]
RhFromDewpointF(t, td) == [fn |-> "rh_from_dewpoint", t |-> t, td |-> td]

\* The argument of or is evaluated before or is called, and a ? in it
\* returns from the accessor.
LayerHash_dewpoint(h) ==
    IF LayerHash_get(h, "Temperature", "Temperature") = None THEN None
    ELSE IF LayerHash_get(h, "RelativeHumidity", "Fraction") = None THEN None
    ELSE Or(LayerHash_get(h, "Dewpoint", "Temperature"),
            Some(DewpointFromRhF(LayerHash_get(h, "Temperature", "Temperature").val,
                                 LayerHash_get(h, "RelativeHumidity", "Fraction").val)))

LayerHash_relative_humidity(h) ==
    IF LayerHash_get(h, "Temperature", "Temperature") = None THEN None
    ELSE IF LayerHash_get(h, "Dewpoint", "Temperature") = None THEN None
    ELSE Or(LayerHash_get(h, "RelativeHumidity", "Fraction"),
            Some(RhFromDewpointF(LayerHash_get(h, "Temperature", "Temperature").val,
                                 LayerHash_get(h, "Dewpoint", "Temperature").val)))

LayerHash_wind_speed(h) ==
    IF LayerHash_get(h, "Wind", "Wind") = None THEN None
    ELSE Or(LayerHash_get(h, "WindSpeed", "Speed"),
            Some(LayerHash_get(h, "Wind", "Wind").val.speed))

LayerHash_wind_direction(h) ==
    IF LayerHash_get(h, "Wind", "Wind") = None THEN None
    ELSE Or(LayerHash_get(h, "WindDirection", "Direction"),
            Some(LayerHash_get(h, "Wind", "Wind").val.direction))

LayerHash_wind(h) ==
    IF LayerHash_get(h, "WindDirection", "Direction") = None THEN None
    ELSE IF LayerHash_get(h, "WindSpeed", "Speed") = None THEN None
    ELSE Or(LayerHash_get(h, "Wind", "Wind"),
            Some([direction |-> LayerHash_get(h, "WindDirection", "Direction").val,
                  speed     |-> LayerHash_get(h, "WindSpeed", "Speed").val]))

\* ------------------------------------------- wxentry/entry_struct.rs

\* What the WxEntryLayer methods see of a WxEntryLayerStruct: the stored
\* temperature, and the defaults of wind_speed and relative_humidity.
LayerOf(s) ==
    [temperature       |-> s.temperature,
     wind_speed        |-> wind_speed_from_wind(s),
     relative_humidity |-> rh_from_dewpoint(s)]

\* SkyCoverage
Clear == [tag |-> "Clear"]
Cloudy(v) == [tag |-> "Cloudy", layers |-> v]

\* unwrap() of None: the thread panics.
Panic == [tag |-> "Panic"]

CoverageOktas(coverage) ==
    CASE coverage = "Few"       -> 1
      [] coverage = "Scattered" -> 3
      [] coverage = "Broken"    -> 6
      [] coverage = "Overcast"  -> 8

oktas(sky) ==
    IF sky.tag = "Clear" THEN 0
    ELSE IF sky.layers = <<>> THEN Panic
    ELSE CHOOSE n \in {CoverageOktas(sky.layers[i]) : i \in DOMAIN sky.layers} :
            \A i \in DOMAIN sky.layers : CoverageOktas(sky.layers[i]) <= n

\* WxEntry::wx: the codes of the observation parsed and combined.
RECURSIVE wx_fold(_, _)
wx_fold(wx, codes) ==
    IF codes = <<>> THEN wx
    ELSE wx_fold(combine(wx, parse_code(Head(codes))), Tail(codes))

WxEntry_wx(e) ==
    IF e.wx_codes = None THEN None ELSE Some(wx_fold(Wx_none, e.wx_codes.val))

\* Layer, with the heights and pressures of its variants.
PlainLayer(name) == [tag |-> name]
AGL(a) == [tag |-> "AGL", a |-> a]
MSL(a) == [tag |-> "MSL", a |-> a]
MBAR(p) == [tag |-> "MBAR", p |-> p]

\* f32::NAN
F32NaN == F32Of(FALSE, 12582912, 105)

\* Layer::height_agl of components.rs.
components_height_agl(l, station_altitude) ==
    CASE l.tag = "All"         -> Some(New(F32NaN, "Meter"))
      [] l.tag = "Indoor"      -> Some(New(F32FromInt(1), "Meter"))
      [] l.tag = "NearSurface" -> Some(New(F32FromInt(2), "Meter"))
      [] l.tag = "SeaLevel"    -> Some(ProportionalMul(station_altitude, F32FromInt(-1)))
      [] l.tag = "AGL"         -> Some(New(F32FromInt(l.a), "Meter"))
      [] l.tag = "MSL"         ->
            Some(ProportionalSub(New(F32FromInt(l.a), "Meter"), station_altitude))
      [] l.tag = "MBAR"        -> None

\* The layer's height above the ground, from its tag and the station.
struct_height_agl(l) == components_height_agl(l.layer, station.altitude)

\* x - altitude; a NaN stays a NaN.
AltitudeSub(x, altitude) ==
    IF x.value = F32NaN THEN x ELSE ProportionalSub(x, altitude)

\* .map(|x| x - self.station().altitude)
map_sub_altitude(h) ==
    IF h = None THEN None ELSE Some(AltitudeSub(h.val, station.altitude))

\* height_msl of WxEntryLayerStruct: the stored value, else from height_agl.
struct_height_msl(l) == Or(l.height_msl, map_sub_altitude(struct_height_agl(l)))

\* The layers the model's records are keyed by.
RecordLayers == {"NearSurface", "Indoor"}

\* The observation-level slots a record carries beside its layers.
TopLevel ==
    {"altimeter", "cape", "skycover", "wx_codes", "raw_metar", "precip_today",
     "precip"}

\* HashMap::new: no layer has an entry.
NoLayers == [l \in RecordLayers |-> None]

\* A record of either kind with no layer and every slot absent.
EmptyRecord(kind) ==
    [kind |-> kind, layers |-> NoLayers, top |-> [f \in TopLevel |-> None]]

\* WxEntryLayerStruct and WxStructDeserializedLayer: a layer's own tag and
\* its slots.
LayerRecord(l, t, p, td, v, w) ==
    [layer |-> l, temperature |-> t, pressure |-> p, dewpoint |-> td,
     visibility |-> v, wind |-> w]

\* layers and layer of WxEntryStruct: the keys of the map, and a lookup.
WxEntryStruct_layers(r) == {l \in DOMAIN r.layers : r.layers[l] # None}
WxEntryStruct_layer(r, l) == IF l \in DOMAIN r.layers THEN r.layers[l] ELSE None

\* layers and layer of WxStructDeserialized.
WxStructDeserialized_layers(r) == {l \in DOMAIN r.layers : r.layers[l] # None}
WxStructDeserialized_layer(r, l) == IF l \in DOMAIN r.layers THEN r.layers[l] ELSE None

\* From<WindExpanded> for Wind: the speed, and the direction converted.
WindFromExpanded(w) ==
    [direction |-> [fn |-> "into", d |-> w.direction], speed |-> w.speed]

\* The store as a backing of the observation interface.
SparseStore(data) == [kind |-> "HashMapWx", data |-> data]

\* layers() and layer() of each backing.
self_layers(self) ==
    CASE self.kind = "HashMapWx"            -> HashMapWx_layers(self.data)
      [] self.kind = "WxEntryStruct"        -> WxEntryStruct_layers(self)
      [] self.kind = "WxStructDeserialized" -> WxStructDeserialized_layers(self)

self_layer(self, l) ==
    CASE self.kind = "HashMapWx"            -> HashMapWx_layer(self.data, l)
      [] self.kind = "WxEntryStruct"        -> WxEntryStruct_layer(self, l)
      [] self.kind = "WxStructDeserialized" -> WxStructDeserialized_layer(self, l)

\* The observation-level accessors of each backing.
self_top(self, field) ==
    IF self.kind = "HashMapWx" THEN HashMapWx_top(self.data, field)
    ELSE self.top[field]

\* The accessors of a layer view of each backing.
view_temperature(kind, v) ==
    IF kind = "HashMapWx" THEN LayerHash_get(v, "Temperature", "Temperature")
    ELSE v.temperature

view_pressure(kind, v) ==
    IF kind = "HashMapWx" THEN LayerHash_get(v, "Pressure", "Pressure")
    ELSE v.pressure

view_dewpoint(kind, v) ==
    IF kind = "HashMapWx" THEN LayerHash_dewpoint(v) ELSE v.dewpoint

view_visibility(kind, v) ==
    IF kind = "HashMapWx" THEN LayerHash_get(v, "Visibility", "Distance")
    ELSE v.visibility

view_wind(kind, v) ==
    CASE kind = "HashMapWx"            -> LayerHash_wind(v)
      [] kind = "WxEntryStruct"        -> v.wind
      [] kind = "WxStructDeserialized" ->
            IF v.wind = None THEN None ELSE Some(WindFromExpanded(v.wind.val))

\* The WxEntryLayerStruct to_struct builds from a view.
struct_of_view(kind, v) ==
    LayerRecord(v.layer, view_temperature(kind, v), view_pressure(kind, v),
                view_dewpoint(kind, v), view_visibility(kind, v),
                view_wind(kind, v))

\* layers.insert(layer.layer(), l): under the view's own tag.
insert_view(layers, kind, v) ==
    [layers EXCEPT ![v.layer] = Some(struct_of_view(kind, v))]

\* The loop of to_struct over layers() in the order the vector has them; a
\* layer without a view ends it with the error.
RECURSIVE to_struct_layers(_, _, _)
to_struct_layers(self, order, layers) ==
    IF order = <<>> THEN Ok(layers)
    ELSE IF self_layer(self, Head(order)) = None THEN Err
    ELSE to_struct_layers(self, Tail(order),
                          insert_view(layers, self.kind,
                                      self_layer(self, Head(order)).val))

to_struct_record(self, looped) ==
    IF looped.tag = "Err" THEN Err
    ELSE Ok([layers |-> looped.val, top |-> [f \in TopLevel |-> self_top(self, f)]])

to_struct(self, order) == to_struct_record(self, to_struct_layers(self, order, NoLayers))

\* The orders a vector collected from a hash map's keys can have.
Orders(S) ==
    {order \in [1..Cardinality(S) -> S] : {order[i] : i \in DOMAIN order} = S}

\* ----------------------------------------------------------- comfort.rs

F32Min == F32Of(TRUE, 16777215, 104)

TEMPERATURE_FACTORS ==
    <<<<F32FromInt(105), 0>>, <<F32FromInt(95), 2>>, <<F32FromInt(90), 4>>,
      <<F32FromInt(85), 5>>, <<F32FromInt(77), 8>>, <<F32FromInt(65), 10>>,
      <<F32FromInt(55), 9>>, <<F32FromInt(45), 7>>, <<F32FromInt(38), 4>>,
      <<F32FromInt(35), 3>>, <<F32FromInt(27), 4>>, <<F32FromInt(20), 2>>,
      <<F32FromInt(10), 1>>, <<F32Min, 0>>>>

CLOUD_COVER_DAY_FACTORS ==
    <<<<F32FromInt(7), 8>>, <<F32FromInt(5), 9>>, <<F32FromInt(1), 10>>,
      <<F32Min, 9>>>>

HEAT_INDEX_FACTORS ==
    <<<<F32FromInt(105), 0>>, <<F32FromInt(100), 1>>, <<F32FromInt(95), 3>>,
      <<F32FromInt(85), 5>>, <<F32FromInt(80), 8>>, <<F32Min, 10>>>>

WIND_CHILL_FACTORS ==
    <<<<F32FromInt(65), 10>>, <<F32FromInt(45), 8>>, <<F32FromInt(35), 5>>,
      <<F32FromInt(27), 4>>, <<F32FromInt(22), 3>>, <<F32FromInt(15), 2>>,
      <<F32FromInt(5), 1>>, <<F32Min, 0>>>>

RELATIVE_HUMIDITY_FACTORS ==
    <<<<F32FromInt(20), 10>>, <<F32FromInt(10), 5>>, <<F32FromInt(0), 2>>>>

DEWPOINT_FACTORS ==
    <<<<F32FromInt(75), 2>>, <<F32FromInt(70), 5>>, <<F32FromInt(65), 8>>,
      <<F32FromInt(20), 10>>, <<F32FromInt(0), 8>>, <<F32Min, 3>>>>

\* The first row whose bound the value reaches, else the last row.
RECURSIVE get_from_table_at(_, _, _)
get_from_table_at(value, table, i) ==
    IF i > Len(table) THEN table[Len(table)][2]
    ELSE IF F32Ge(value, table[i][1]) THEN table[i][2]
    ELSE get_from_table_at(value, table, i + 1)

get_from_table(value, table) == get_from_table_at(value, table, 1)

\* .map(|x| get_from_table(&x.value_in(Fahrenheit), table)) on a temperature.
temperature_factor(t, table) ==
    IF t = None THEN None
    ELSE Some(get_from_table(temperature_value_in(t.val, "Fahrenheit"), table))

\* .map(|x| get_from_table(&x.value_in(Percent), table)) on a fraction.
fraction_factor(f, table) ==
    IF f = None THEN None
    ELSE Some(get_from_table(value_in(f.val, "Percent"), table))

cloud_factor(sky) ==
    IF sky = None THEN None
    ELSE Some(get_from_table(F32FromInt(oktas(sky.val)), CLOUD_COVER_DAY_FACTORS))

\* The rain sub-score with the fog rule before the freezing-rain rule.
rain_score_fog_first(w) ==
    IF w.fog THEN 9
    ELSE IF w.freezing /\ w.rain \notin {"None", "Nearby"} THEN 0
    ELSE CASE w.rain \in {"None", "Nearby"} -> 10
           [] w.rain = "VeryLight" -> 7
           [] w.rain = "Light" -> 6
           [] w.rain = "Medium" -> 4
           [] w.rain = "Heavy" -> 5

rain_score(w) ==
    IF w.freezing /\ w.rain \notin {"None", "Nearby"} THEN 0
    ELSE IF w.fog THEN 9
    ELSE CASE w.rain \in {"None", "Nearby"} -> 10
           [] w.rain = "VeryLight" -> 7
           [] w.rain = "Light" -> 6
           [] w.rain = "Medium" -> 4
           [] w.rain = "Heavy" -> 5

rain_factor(wx) == IF wx = None THEN None ELSE Some(rain_score(wx.val))

lightning_modifier(wx) ==
    IF wx = None THEN 0 ELSE IF wx.val.thunderstorm THEN 5 ELSE 0

snow_score(w) ==
    IF w.snow \in {"None", "Nearby"} THEN 0
    ELSE IF w.thunderstorm THEN 10
    ELSE IF w.squalls THEN 5
    ELSE CASE w.snow = "VeryLight" -> 1
           [] w.snow = "Light" -> 2
           [] w.snow = "Medium" -> 3
           [] w.snow = "Heavy" -> 5

snow_modifier(wx) == IF wx = None THEN 0 ELSE snow_score(wx.val)

tornado_modifier(wx) ==
    IF wx = None THEN 0 ELSE IF wx.val.funnel_cloud = "None" THEN 0 ELSE 10

\* The surface layer as the WxEntryLayer methods see it, if there is one.
surface(e) == IF e.surface = None THEN None ELSE Some(LayerOf(e.surface.val))

\* surface().and_then(f)
and_then_temperature(l) == IF l = None THEN None ELSE l.val.temperature
and_then_heat_index(l) == IF l = None THEN None ELSE heat_index(l.val)
and_then_wind_chill(l) == IF l = None THEN None ELSE wind_chill(l.val)
and_then_relative_humidity(l) == IF l = None THEN None ELSE l.val.relative_humidity
and_then_dewpoint(e) == IF e.surface = None THEN None ELSE e.surface.val.dewpoint

\* The array of the seven sub-scores with their factors.
factors(e, l, wx) ==
    <<<<temperature_factor(and_then_temperature(l), TEMPERATURE_FACTORS), "Temperature">>,
      <<cloud_factor(e.skycover), "CloudCover">>,
      <<temperature_factor(and_then_heat_index(l), HEAT_INDEX_FACTORS), "HeatIndex">>,
      <<temperature_factor(and_then_wind_chill(l), WIND_CHILL_FACTORS), "WindChill">>,
      <<rain_factor(wx), "Rain">>,
      <<fraction_factor(and_then_relative_humidity(l), RELATIVE_HUMIDITY_FACTORS), "DryAir">>,
      <<temperature_factor(and_then_dewpoint(e), DEWPOINT_FACTORS), "Humidity">>>>

unwrap_or(option, default) == IF option = None THEN default ELSE option.val

\* A minimum that returns the last of several equally minimum elements.
min_by_last(fs) ==
    fs[CHOOSE i \in DOMAIN fs :
          /\ \A j \in DOMAIN fs : unwrap_or(fs[i][1], 10) <= unwrap_or(fs[j][1], 10)
          /\ \A j \in (i + 1)..Len(fs) : unwrap_or(fs[j][1], 10) > unwrap_or(fs[i][1], 10)]

\* Iterator::min_by: of several equally minimum elements, the first.
min_by(fs) ==
    fs[CHOOSE i \in DOMAIN fs :
          /\ \A j \in DOMAIN fs : unwrap_or(fs[i][1], 10) <= unwrap_or(fs[j][1], 10)
          /\ \A j \in 1..(i - 1) : unwrap_or(fs[j][1], 10) > unwrap_or(fs[i][1], 10)]

\* u8::min
MinU8(a, b) == IF a <= b THEN a ELSE b

\* The score without the cap at 10.
comfort_result_uncapped(worst, modifiers) ==
    IF worst[1] = None THEN None
    ELSE Some(<<worst[1].val + modifiers, worst[2]>>)

\* (*index)?, the modifiers added, the sum capped at 10.
comfort_result(worst, modifiers) ==
    IF worst[1] = None THEN None
    ELSE Some(<<MinU8(worst[1].val + modifiers, 10), worst[2]>>)

comfort_of(e, l, wx) ==
    comfort_result(min_by(factors(e, l, wx)),
                   lightning_modifier(wx) + snow_modifier(wx) + tornado_modifier(wx))

\* The panic of oktas() on a Cloudy without layers ends the call.
comfort_index(e) ==
    IF e.skycover = Some(Cloudy(<<>>)) THEN oktas(e.skycover.val)
    ELSE comfort_of(e, surface(e), WxEntry_wx(e))

\* ------------------------------------------------------ fetch/asos.rs

\* CloudLayer::from_code; a layer is kept by its coverage.
from_code(code) ==
    CASE code \in {"SKC", "CLR"} -> Ok(None)
      [] code = "FEW" -> Ok(Some("Few"))
      [] code = "SCT" -> Ok(Some("Scattered"))
      [] code = "BKN" -> Ok(Some("Broken"))
      [] code = "OVC" -> Ok(Some("Overcast"))
      [] OTHER -> Err

\* The loop over cover.iter().zip(level.iter()) and its body for a reported
\* pair, layer_option being the outcome of from_code.
RECURSIVE skyc_loop(_, _, _), skyc_push(_, _, _, _)
skyc_push(layer_option, cover, level, skyc) ==
    IF layer_option.tag = "Err" THEN Err
    ELSE IF layer_option.val.tag = "Some"
         THEN skyc_loop(Tail(cover), Tail(level), Append(skyc, layer_option.val.val))
         ELSE skyc_loop(Tail(cover), Tail(level), skyc)

skyc_loop(cover, level, skyc) ==
    IF cover = <<>> \/ level = <<>> THEN Ok(Cloudy(skyc))
    ELSE IF Head(cover).tag = "Some" /\ Head(level).tag = "Some"
         THEN skyc_push(from_code(Head(cover).val), cover, level, skyc)
    ELSE IF Head(cover).tag = "None" /\ Head(level).tag = "None"
         THEN skyc_loop(Tail(cover), Tail(level), skyc)
    ELSE Err

skycover_from_vecs(cover, level) ==
    IF \A i \in DOMAIN level : level[i].tag = "None" THEN Ok(Clear)
    ELSE skyc_loop(cover, level, <<>>)

\* Result::ok
Result_ok(r) == IF r.tag = "Ok" THEN Some(r.val) ELSE None

\* A row without sky columns.
NoSkyReport == [skycover |-> <<>>, skylevel |-> <<>>]

\* --------------------------------- wxentry.rs: quasi-calculated fields

\* The backings by what they override of the pair: TestLayer overrides
\* neither accessor, WxEntryLayerStruct overrides dewpoint() with its field,
\* LayerHash overrides both with get(..).or(..).
BackingKinds == {"TestLayer", "WxEntryLayerStruct", "LayerHash"}

\* Option::or after its argument was evaluated; an argument that never
\* returns leaves the call without a result.
OrOf(a, b) == IF b.tag = "StackOverflow" THEN StackOverflow ELSE Or(a, b)

\* Some(formulae::rh_to_dewpoint(t, rh?))
rh_to_dewpoint_of(t, rh) ==
    IF rh.tag = "Some" THEN Some(DewpointFromRhF(t, rh.val)) ELSE rh

\* The Magnus quotient of rh_from_dewpoint at t and td?.
magnus_quotient_of(t, td) ==
    IF td.tag = "Some" THEN Some(RhFromDewpointF(t, td.val)) ELSE td

\* dewpoint(), relative_humidity() and the two derivations of the trait,
\* with stack frames left.
RECURSIVE dewpoint_of(_, _), relative_humidity_of(_, _)
RECURSIVE dewpoint_from_rh(_, _), rh_from_dewpoint_of(_, _)
dewpoint_from_rh(self, stack) ==
    IF stack = 0 THEN StackOverflow
    ELSE IF self.temperature = None THEN None
    ELSE rh_to_dewpoint_of(self.temperature.val,
                           relative_humidity_of(self, stack - 1))

rh_from_dewpoint_of(self, stack) ==
    IF stack = 0 THEN StackOverflow
    ELSE IF self.temperature = None THEN None
    ELSE magnus_quotient_of(self.temperature.val, dewpoint_of(self, stack - 1))

dewpoint_of(self, stack) ==
    IF stack = 0 THEN StackOverflow
    ELSE CASE self.kind = "TestLayer" -> dewpoint_from_rh(self, stack - 1)
           [] self.kind = "WxEntryLayerStruct" -> self.dewpoint
           [] self.kind = "LayerHash" ->
                OrOf(self.dewpoint, dewpoint_from_rh(self, stack - 1))

relative_humidity_of(self, stack) ==
    IF stack = 0 THEN StackOverflow
    ELSE CASE self.kind = "TestLayer" -> rh_from_dewpoint_of(self, stack - 1)
           [] self.kind = "WxEntryLayerStruct" -> rh_from_dewpoint_of(self, stack - 1)
           [] self.kind = "LayerHash" ->
                OrOf(self.relative_humidity, rh_from_dewpoint_of(self, stack - 1))

\* A TestLayer that holds nothing.
NoBacking ==
    [kind |-> "TestLayer", temperature |-> None, dewpoint |-> None,
     relative_humidity |-> None]

\* ----------------------------------------------------------------- db.rs

\* Timestamps are ticks; a calendar day has TicksPerDay of them.
TicksPerDay == 2
LastTick == 2
EntryTimes == 0..LastTick

\* Duration::days and DateTime::date_naive
days(n) == n * TicksPerDay
date_naive(dt) == dt \div TicksPerDay

\* StationData: the entry under each timestamp, if any. BTreeMap::new.
NoData == [dt \in EntryTimes |-> None]

\* The keys of a StationData, in the order of the BTreeMap.
RECURSIVE keys_from(_, _)
keys_from(data, dt) ==
    IF dt > LastTick THEN <<>>
    ELSE IF data[dt] = None THEN keys_from(data, dt + 1)
    ELSE <<dt>> \o keys_from(data, dt + 1)

keys(data) == keys_from(data, 0)

\* The loop of add: an entry of the child is inserted when replace is set
\* or the key is new.
RECURSIVE add_loop(_, _, _, _)
add_loop(data, child, ks, replace) ==
    IF ks = <<>> THEN data
    ELSE add_loop(IF replace \/ data[Head(ks)] = None
                  THEN [data EXCEPT ![Head(ks)] = child[Head(ks)]]
                  ELSE data,
                  child, Tail(ks), replace)

\* An add that inserts every entry of the child.
add_replacing(data, child, replace) == add_loop(data, child, keys(child), TRUE)

add(data, child, replace) == add_loop(data, child, keys(child), replace)

\* The loop of export: the entries of the date's calendar day.
RECURSIVE export_loop(_, _, _, _)
export_loop(data, ks, date, write_tree) ==
    IF ks = <<>> THEN write_tree
    ELSE export_loop(data, Tail(ks), date,
                     IF date_naive(Head(ks)) = date_naive(date)
                     THEN [write_tree EXCEPT ![Head(ks)] = data[Head(ks)]]
                     ELSE write_tree)

export_tree(data, date) == export_loop(data, keys(data), date, NoData)

\* The loop of trim: the keys earlier than two days before now are removed.
RECURSIVE trim_loop(_, _, _)
trim_loop(data, ks, now) ==
    IF ks = <<>> THEN data
    ELSE trim_loop(IF Head(ks) < now - days(2)
                   THEN [data EXCEPT ![Head(ks)] = None]
                   ELSE data,
                   Tail(ks), now)

\* A trim that also removes the key exactly two days old.
trim_inclusive(data, now) ==
    [dt \in DOMAIN data |-> IF dt <= now - days(2) THEN None ELSE data[dt]]

trim(data, now) == trim_loop(data, keys(data), now)

\* child.unwrap_or_default(): a failed fetch is an empty child.
unwrap_or_default(child) == IF child.tag = "Ok" THEN child.val ELSE NoData

\* The callers of full_update, the dates they export, the days that have a
\* file, and the instants trim can sample.
Callers == {1, 2}
Dates == {days(d) : d \in 0..date_naive(LastTick)}
FileDays == -1..date_naive(LastTick)
Nows == {0} \cup (days(2)..(days(2) + LastTick + 1))

\* A call of full_update: where it is, its arguments, its locals, what it
\* returned, and the history of the call: the steps it has taken, whether
\* the fetch had failed, the data as its add found and left them, and
\* whether its trim removed an entry.
IdleCall ==
    [pc |-> "idle", child |-> Err, replace |-> FALSE, date |-> 0,
     write_tree |-> NoData, now |-> 0, log |-> <<>>, failed_fetch |-> FALSE,
     before |-> NoData, added |-> NoData, trimmed |-> FALSE,
     returned |-> "none"]

\* new_station_db: no data; no file has been written; nobody has called.
new_station_db ==
    [data |-> NoData, files |-> [d \in FileDays |-> None],
     calls |-> [c \in Callers |-> IdleCall]]

\* The ? after an export: where full_update goes on, or that it returns.
after_export_ignoring(ok, next) == next

after_export(ok, next) == IF ok THEN next ELSE "done"

\* ---------------------------------------------------------------- state

VARIABLES
    layer,    \* the layer under test: what its accessors return
    entry,    \* the observation under test: its layers and its altimeter
    operands, \* three present-weather values
    code,     \* a present-weather code: a sequence of characters
    raw_degrees, \* the degrees a Direction is asked for (u16)
    store, \* the sparse store: (layer, param) -> boxed value, if any
    obs, \* the observation comfort_index is given
    quantities, \* the operands of the arithmetic: <<self, rhs>>
    struct_layer, \* a WxEntryLayerStruct: its layer and stored height_msl
    written, \* history: the last value put under each key, if any
    record, \* a dense or a wire record: its kind, layers and slots
    conversion, \* a quantity and what a chain of conversions made of it
    station_db, \* the station database, the exported files and the calls of full_update
    backing, \* a layer of a backing: [kind, temperature, dewpoint, relative_humidity]
    ob, \* the sky columns of an ASOS row: [skycover, skylevel]
    result    \* the last call: [op, val]

vars == <<layer, entry, operands, code, raw_degrees, store, obs, quantities, struct_layer, written, record, conversion, station_db, backing, ob, result>>

\* What the calls on one object leave alone.
OtherThanLayer == <<entry, operands, code, raw_degrees, store, obs, quantities, struct_layer, written, record, conversion, station_db, backing, ob>>
OtherThanEntry == <<layer, operands, code, raw_degrees, store, obs, quantities, struct_layer, written, record, conversion, station_db, backing, ob>>
OtherThanOperands == <<layer, entry, code, raw_degrees, store, obs, quantities, struct_layer, written, record, conversion, station_db, backing, ob>>
OtherThanCode == <<layer, entry, operands, raw_degrees, store, obs, quantities, struct_layer, written, record, conversion, station_db, backing, ob>>
OtherThanDegrees == <<layer, entry, operands, code, store, obs, quantities, struct_layer, written, record, conversion, station_db, backing, ob>>
OtherThanStore == <<layer, entry, operands, code, raw_degrees, obs, quantities, struct_layer, record, conversion, station_db, backing, ob>>
OtherThanObs == <<layer, entry, operands, code, raw_degrees, store, quantities, struct_layer, written, record, conversion, station_db, backing, ob>>
OtherThanQuantities == <<layer, entry, operands, code, raw_degrees, store, obs, struct_layer, written, record, conversion, station_db, backing, ob>>
OtherThanStructLayer == <<layer, entry, operands, code, raw_degrees, store, obs, quantities, written, record, conversion, station_db, backing, ob>>
OtherThanRecord == <<layer, entry, operands, code, raw_degrees, store, obs, quantities, struct_layer, written, conversion, station_db, backing, ob>>
OtherThanConversion == <<layer, entry, operands, code, raw_degrees, store, obs, quantities, struct_layer, written, record, station_db, backing, ob>>
OtherThanStationDb == <<layer, entry, operands, code, raw_degrees, store, obs, quantities, struct_layer, written, record, conversion, backing, ob>>
OtherThanBacking == <<layer, entry, operands, code, raw_degrees, store, obs, quantities, struct_layer, written, record, conversion, station_db, ob>>
OtherThanOb == <<layer, entry, operands, code, raw_degrees, store, obs, quantities, struct_layer, written, record, conversion, station_db, backing>>

NoCall == [op |-> "none"]
Call(op, val) == [op |-> op, val |-> val]

\* Readings are whole degrees Fahrenheit, whole miles per hour and whole
\* percent, around the thresholds of the validity tests.
TempSpread == 2
MaxWindMph == 5
RhSpread == 1

Temperatures ==
    {New(F32FromInt(n), "Fahrenheit") :
        n \in (50 - TempSpread .. 50 + TempSpread) \cup (80 - TempSpread .. 80 + TempSpread)}
Speeds == {New(F32FromInt(n), "Mph") : n \in 0..MaxWindMph}
Humidities == {New(F32FromInt(n), "Percent") : n \in 40 - RhSpread .. 40 + RhSpread}

Opt(S) == {None} \cup {Some(x) : x \in S}

EmptyLayer == [temperature |-> None, wind_speed |-> None, relative_humidity |-> None]

EntryLayers == {"SeaLevel", "NearSurface", "Indoor"}
NoQuantities == <<New(F32Zero, "Meter"), New(F32Zero, "Meter")>>
NoConversion ==
    [family |-> "Distance", origin |-> New(F32Zero, "Meter"),
     current |-> New(F32Zero, "Meter")]
NearSurfaceStruct == [layer |-> PlainLayer("NearSurface"), height_msl |-> None]
EmptyObs == [surface |-> None, skycover |-> None, wx_codes |-> None]
EmptyEntry == [layers |-> [l \in EntryLayers |-> None], altimeter |-> None]
NoOperands == <<Wx_none, Wx_none, Wx_none>>

\* Nothing stored, nothing called.
Blank ==
    /\ layer = EmptyLayer
    /\ entry = EmptyEntry
    /\ operands = NoOperands
    /\ code = <<>>
    /\ raw_degrees = 0
    /\ store = HashMapWx_new
    /\ obs = EmptyObs
    /\ quantities = NoQuantities
    /\ struct_layer = NearSurfaceStruct
    /\ written = HashMapWx_new
    /\ record = EmptyRecord("WxEntryStruct")
    /\ conversion = NoConversion
    /\ station_db = new_station_db
    /\ backing = NoBacking
    /\ ob = NoSkyReport
    /\ result = NoCall

LayerInit == Blank

SetTemperature ==
    \E t \in Opt(Temperatures) :
        /\ layer' = [layer EXCEPT !.temperature = t]
        /\ result' = NoCall
        /\ UNCHANGED OtherThanLayer

SetWindSpeed ==
    \E w \in Opt(Speeds) :
        /\ layer' = [layer EXCEPT !.wind_speed = w]
        /\ result' = NoCall
        /\ UNCHANGED OtherThanLayer

SetRelativeHumidity ==
    \E r \in Opt(Humidities) :
        /\ layer' = [layer EXCEPT !.relative_humidity = r]
        /\ result' = NoCall
        /\ UNCHANGED OtherThanLayer

CallWindChillValid ==
    /\ result' = Call("wind_chill_valid", wind_chill_valid(layer))
    /\ UNCHANGED <<layer, OtherThanLayer>>

CallWindChill ==
    /\ result' = Call("wind_chill", wind_chill(layer))
    /\ UNCHANGED <<layer, OtherThanLayer>>

CallHeatIndexValid ==
    /\ result' = Call("heat_index_valid", heat_index_valid(layer))
    /\ UNCHANGED <<layer, OtherThanLayer>>

CallHeatIndex ==
    /\ result' = Call("heat_index", heat_index(layer))
    /\ UNCHANGED <<layer, OtherThanLayer>>

CallApparentTemp ==
    /\ result' = Call("apparent_temp", apparent_temp(layer))
    /\ UNCHANGED <<layer, OtherThanLayer>>

LayerNext ==
    \/ SetTemperature
    \/ SetWindSpeed
    \/ SetRelativeHumidity
    \/ CallWindChillValid
    \/ CallWindChill
    \/ CallHeatIndexValid
    \/ CallHeatIndex
    \/ CallApparentTemp

SpecLayer == LayerInit /\ [][LayerNext]_vars

\* ---------------------------------------------------- the observation

PressureReadings == 2
Pressures == {New(F32FromInt(1000 + 13 * n), "Mbar") : n \in 0 .. PressureReadings - 1}
EntryTemperatures == {New(F32FromInt(15), "Celsius")}

\* The layers a backing can hold under the name l.
EntryLayer(l) ==
    [layer : {l}, pressure : Opt(Pressures), temperature : Opt(EntryTemperatures)]

EntryInit == Blank

PutLayer ==
    \E l \in EntryLayers : \E x \in Opt(EntryLayer(l)) :
        /\ entry' = [entry EXCEPT !.layers[l] = x]
        /\ result' = NoCall
        /\ UNCHANGED OtherThanEntry

SetAltimeter ==
    \E a \in Opt(Pressures) :
        /\ entry' = [entry EXCEPT !.altimeter = a]
        /\ result' = NoCall
        /\ UNCHANGED OtherThanEntry

CallHeightMsl ==
    \E l \in EntryLayers :
        /\ entry.layers[l] # None
        /\ result' = Call("height_msl", height_msl(entry.layers[l].val, StackLimit))
        /\ UNCHANGED <<entry, OtherThanEntry>>

CallSlp ==
    \E l \in EntryLayers :
        /\ entry.layers[l] # None
        /\ result' = Call("slp", slp(entry.layers[l].val, latitude))
        /\ UNCHANGED <<entry, OtherThanEntry>>

CallMslpFromAltimeter ==
    /\ result' = Call("mslp_from_altimeter", mslp_from_altimeter(entry))
    /\ UNCHANGED <<entry, OtherThanEntry>>

CallBestSlp ==
    /\ result' = Call("best_slp", best_slp(entry))
    /\ UNCHANGED <<entry, OtherThanEntry>>

EntryNext ==
    \/ PutLayer
    \/ SetAltimeter
    \/ CallHeightMsl
    \/ CallSlp
    \/ CallMslpFromAltimeter
    \/ CallBestSlp

SpecEntry == EntryInit /\ [][EntryNext]_vars

\* ------------------------------------------------- present weather: combine

\* The operands differ from Wx::none() in at most one qualifier and in at
\* most one category at a time; every qualifier and category has its turn.
OnlyQualifier(q) ==
    \A r \in 1..3 : \A p \in Qualifiers \ {q} : ~operands[r][p]
OnlyCategory(c) ==
    \A r \in 1..3 : \A d \in Categories \ {c} : operands[r][d] = "None"

CombineInit == Blank

SetQualifier ==
    \E r \in 1..3 : \E q \in Qualifiers : \E v \in BOOLEAN :
        /\ OnlyQualifier(q)
        /\ operands' = [operands EXCEPT ![r][q] = v]
        /\ UNCHANGED <<result, OtherThanOperands>>

SetIntensity ==
    \E r \in 1..3 : \E c \in Categories : \E i \in Intensity :
        /\ OnlyCategory(c)
        /\ operands' = [operands EXCEPT ![r][c] = i]
        /\ UNCHANGED <<result, OtherThanOperands>>

\* wx = wx.combine(other), as the loop of WxEntry::wx does.
CombineInto ==
    \E r \in 1..3 : \E o \in 1..3 :
        /\ operands' = [operands EXCEPT ![r] = combine(operands[r], operands[o])]
        /\ UNCHANGED <<result, OtherThanOperands>>

CombineNext ==
    \/ SetQualifier
    \/ SetIntensity
    \/ CombineInto

SpecCombine == CombineInit /\ [][CombineNext]_vars

\* ---------------------------------------------- present weather: parse_code

\* Codes are written from these pieces: intensity markers, a slash, tokens
\* of the categories and a letter that is no token by itself.
Pieces ==
    {<<"-">>, <<"+">>, <<"/">>, <<"B">>,
     <<"V", "C">>, <<"R", "A">>, <<"D", "Z">>, <<"D", "U">>, <<"D", "S">>,
     <<"S", "A">>, <<"P", "O">>, <<"S", "S">>, <<"P", "L">>, <<"G", "R">>,
     <<"S", "N">>, <<"T", "S">>}

MaxCodeLen == 5

ParseInit == Blank

AppendPiece ==
    \E p \in Pieces :
        /\ Len(code) + Len(p) <= MaxCodeLen
        /\ code' = code \o p
        /\ result' = NoCall
        /\ UNCHANGED OtherThanCode

CallParseCode ==
    /\ result' = Call("parse_code", parse_code(code))
    /\ UNCHANGED <<code, OtherThanCode>>

ParseNext ==
    \/ AppendPiece
    \/ CallParseCode

SpecParse == ParseInit /\ [][ParseNext]_vars

\* ------------------------------------------------------------ directions

MaxDegrees == 400

DirectionInit == Blank

ChooseDegrees ==
    \E d \in 0..MaxDegrees :
        /\ raw_degrees' = d
        /\ result' = NoCall
        /\ UNCHANGED OtherThanDegrees

CallFromDegrees ==
    /\ result' = Call("from_degrees", from_degrees(raw_degrees))
    /\ UNCHANGED <<raw_degrees, OtherThanDegrees>>

DirectionNext ==
    \/ ChooseDegrees
    \/ CallFromDegrees

SpecDirection == DirectionInit /\ [][DirectionNext]_vars

\* ------------------------------------------------------- the sparse store

\* The type each accessor asks for under a parameter.
TypeOf(param) ==
    CASE param = "Temperature"      -> "Temperature"
      [] param = "Dewpoint"         -> "Temperature"
      [] param = "RelativeHumidity" -> "Fraction"
      [] param = "WindSpeed"        -> "Speed"
      [] param = "WindDirection"    -> "Direction"
      [] param = "Wind"             -> "Wind"

\* A reading of that type to put under the parameter.
ReadingOf(param) ==
    CASE param = "Temperature"      -> New(F32FromInt(70), "Fahrenheit")
      [] param = "Dewpoint"         -> New(F32FromInt(50), "Fahrenheit")
      [] param = "RelativeHumidity" -> New(F32FromInt(45), "Percent")
      [] param = "WindSpeed"        -> New(F32FromInt(5), "Mph")
      [] param = "WindDirection"    -> 180
      [] param = "Wind"             -> [direction |-> 90, speed |-> New(F32FromInt(10), "Mph")]

\* What callers put under a parameter: a reading of the accessor's type, or
\* a value of another type.
BoxFor(param, typed) ==
    IF typed THEN Box(TypeOf(param), ReadingOf(param)) ELSE Box("String", "n/a")

StoreInit == Blank

Put ==
    \E param \in StoreParams : \E typed \in BOOLEAN :
        /\ store' = put(store, "NearSurface", param, BoxFor(param, typed))
        /\ written' = [written EXCEPT ![<<"NearSurface", param>>] =
                                          Some(BoxFor(param, typed))]
        /\ result' = NoCall
        /\ UNCHANGED OtherThanStore

PutOpt ==
    \E param \in StoreParams : \E present \in BOOLEAN : \E typed \in BOOLEAN :
        /\ store' = put_opt(store, "NearSurface", param,
                            IF present THEN Some(BoxFor(param, typed)) ELSE None)
        /\ written' = IF present
                      THEN [written EXCEPT ![<<"NearSurface", param>>] =
                                               Some(BoxFor(param, typed))]
                      ELSE written
        /\ result' = NoCall
        /\ UNCHANGED OtherThanStore

CallGet ==
    \E param \in StoreParams :
        /\ result' = [op |-> "get", param |-> param,
                      val |-> get(store, "NearSurface", param, TypeOf(param))]
        /\ UNCHANGED <<store, written, OtherThanStore>>

CallDewpoint ==
    /\ result' = Call("dewpoint", LayerHash_dewpoint(LayerHash("NearSurface", store)))
    /\ UNCHANGED <<store, written, OtherThanStore>>

CallRelativeHumidity ==
    /\ result' = Call("relative_humidity",
                      LayerHash_relative_humidity(LayerHash("NearSurface", store)))
    /\ UNCHANGED <<store, written, OtherThanStore>>

CallWindSpeed ==
    /\ result' = Call("wind_speed", LayerHash_wind_speed(LayerHash("NearSurface", store)))
    /\ UNCHANGED <<store, written, OtherThanStore>>

CallWindDirection ==
    /\ result' = Call("wind_direction",
                      LayerHash_wind_direction(LayerHash("NearSurface", store)))
    /\ UNCHANGED <<store, written, OtherThanStore>>

CallWind ==
    /\ result' = Call("wind", LayerHash_wind(LayerHash("NearSurface", store)))
    /\ UNCHANGED <<store, written, OtherThanStore>>

StoreNext ==
    \/ Put
    \/ PutOpt
    \/ CallGet
    \/ CallDewpoint
    \/ CallRelativeHumidity
    \/ CallWindSpeed
    \/ CallWindDirection
    \/ CallWind

SpecStore == StoreInit /\ [][StoreNext]_vars

\* ------------------------------------------------------ the comfort index

ComfortTemperatures == {New(F32FromInt(n), "Fahrenheit") : n \in {30, 70, 90}}
ComfortDewpoints == {New(F32FromInt(n), "Fahrenheit") : n \in {10, 72}}
ComfortWinds == {[direction |-> 270, speed |-> New(F32FromInt(10), "Mph")]}

SurfaceLayers ==
    [temperature : Opt(ComfortTemperatures),
     dewpoint    : Opt(ComfortDewpoints),
     wind        : Opt(ComfortWinds)]

Skies ==
    {Clear, Cloudy(<<>>), Cloudy(<<"Few">>), Cloudy(<<"Scattered", "Overcast">>)}

\* TSRA, TSSN, SN, -SN, SQ, FC, FZRA, FG
CodeBook ==
    {<<"T", "S", "R", "A">>, <<"T", "S", "S", "N">>, <<"S", "N">>,
     <<"-", "S", "N">>, <<"S", "Q">>, <<"F", "C">>,
     <<"F", "Z", "R", "A">>, <<"F", "G">>}

\* No code, one code, or two codes.
CodeLists ==
    {<<>>} \cup {<<c>> : c \in CodeBook} \cup {<<c, d>> : c \in CodeBook, d \in CodeBook}

ComfortInit == Blank

SetSurface ==
    \E l \in Opt(SurfaceLayers) :
        /\ obs' = [obs EXCEPT !.surface = l]
        /\ result' = NoCall
        /\ UNCHANGED OtherThanObs

SetSkycover ==
    \E sky \in Opt(Skies) :
        /\ obs' = [obs EXCEPT !.skycover = sky]
        /\ result' = NoCall
        /\ UNCHANGED OtherThanObs

SetWxCodes ==
    \E codes \in Opt(CodeLists) :
        /\ obs' = [obs EXCEPT !.wx_codes = codes]
        /\ result' = NoCall
        /\ UNCHANGED OtherThanObs

CallComfortIndex ==
    /\ result' = Call("comfort_index", comfort_index(obs))
    /\ UNCHANGED <<obs, OtherThanObs>>

ComfortNext ==
    \/ SetSurface
    \/ SetSkycover
    \/ SetWxCodes
    \/ CallComfortIndex

SpecComfort == ComfortInit /\ [][ComfortNext]_vars

\* ------------------------------------------------------------ arithmetic

MaxQuantity == 3

\* Altitudes and distances in both units of the family.
Quantities == {New(F32FromInt(n), u) : n \in 0..MaxQuantity, u \in {"Meter", "Feet"}}

ArithInit == Blank

SetSelf ==
    \E q \in Quantities :
        /\ quantities' = <<q, quantities[2]>>
        /\ result' = NoCall
        /\ UNCHANGED OtherThanQuantities

SetRhs ==
    \E q \in Quantities :
        /\ quantities' = <<quantities[1], q>>
        /\ result' = NoCall
        /\ UNCHANGED OtherThanQuantities

CallAdd ==
    /\ result' = Call("add", ProportionalAdd(quantities[1], quantities[2]))
    /\ UNCHANGED <<quantities, OtherThanQuantities>>

CallSub ==
    /\ result' = Call("sub", ProportionalSub(quantities[1], quantities[2]))
    /\ UNCHANGED <<quantities, OtherThanQuantities>>

ArithNext ==
    \/ SetSelf
    \/ SetRhs
    \/ CallAdd
    \/ CallSub

SpecArith == ArithInit /\ [][ArithNext]_vars

\* ------------------------------------------------------- layer heights

MaxLayerHeight == 3

\* Every variant of Layer, the last three with small heights and pressures.
Layers ==
    {PlainLayer(n) : n \in {"All", "Indoor", "NearSurface", "SeaLevel"}}
        \cup {AGL(a) : a \in 0..MaxLayerHeight}
        \cup {MSL(a) : a \in 0..MaxLayerHeight}
        \cup {MBAR(p) : p \in 0..MaxLayerHeight}

StoredHeights == {New(F32FromInt(100), "Meter"), New(F32FromInt(500), "Feet")}

HeightInit == Blank

SetLayer ==
    \E l \in Layers :
        /\ struct_layer' = [struct_layer EXCEPT !.layer = l]
        /\ result' = NoCall
        /\ UNCHANGED OtherThanStructLayer

SetHeightMsl ==
    \E h \in Opt(StoredHeights) :
        /\ struct_layer' = [struct_layer EXCEPT !.height_msl = h]
        /\ result' = NoCall
        /\ UNCHANGED OtherThanStructLayer

CallLayerHeightAgl ==
    /\ result' = Call("Layer::height_agl",
                      components_height_agl(struct_layer.layer, station.altitude))
    /\ UNCHANGED <<struct_layer, OtherThanStructLayer>>

CallStructHeightMsl ==
    /\ result' = Call("height_msl", struct_height_msl(struct_layer))
    /\ UNCHANGED <<struct_layer, OtherThanStructLayer>>

HeightNext ==
    \/ SetLayer
    \/ SetHeightMsl
    \/ CallLayerHeightAgl
    \/ CallStructHeightMsl

SpecHeight == HeightInit /\ [][HeightNext]_vars

\* ------------------------------------------------------------ to_struct

\* The readings the layers of a record hold.
RecordTemperature == New(F32FromInt(70), "Fahrenheit")
RecordWind(kind) ==
    IF kind = "WxStructDeserialized"
    THEN [direction |-> [expanded |-> 90], speed |-> New(F32FromInt(10), "Mph")]
    ELSE [direction |-> 90, speed |-> New(F32FromInt(10), "Mph")]

ToStructInit == Blank

\* A new record of either kind.
NewRecord ==
    \E kind \in {"WxEntryStruct", "WxStructDeserialized"} :
        /\ record' = EmptyRecord(kind)
        /\ result' = NoCall
        /\ UNCHANGED OtherThanRecord

\* An entry of the record's layer map. The library inserts a dense layer
\* under the layer's own tag; a wire record is deserialized from a map whose
\* keys and whose layers' tags are separate pieces of the input.
InsertLayer ==
    \E key \in RecordLayers : \E tag \in RecordLayers :
    \E t \in Opt({RecordTemperature}) : \E w \in Opt({RecordWind(record.kind)}) :
        /\ record.kind = "WxEntryStruct" => tag = key
        /\ record' = [record EXCEPT !.layers[key] =
                          Some(LayerRecord(tag, t, None, None, None, w))]
        /\ result' = NoCall
        /\ UNCHANGED OtherThanRecord

\* A reading put into the store.
PutReading ==
    \E param \in {"Temperature", "Dewpoint"} :
        /\ store' = put(store, "NearSurface", param, BoxFor(param, TRUE))
        /\ written' = [written EXCEPT ![<<"NearSurface", param>>] =
                                          Some(BoxFor(param, TRUE))]
        /\ result' = NoCall
        /\ UNCHANGED OtherThanStore

CallToStruct ==
    \E order \in Orders(self_layers(record)) :
        /\ result' = [op |-> "to_struct", kind |-> record.kind,
                      val |-> to_struct(record, order)]
        /\ UNCHANGED <<record, OtherThanRecord>>

CallStoreToStruct ==
    \E order \in Orders(self_layers(SparseStore(store))) :
        /\ result' = [op |-> "to_struct", kind |-> "HashMapWx",
                      val |-> to_struct(SparseStore(store), order)]
        /\ UNCHANGED <<record, OtherThanRecord>>

ToStructNext ==
    \/ NewRecord
    \/ InsertLayer
    \/ PutReading
    \/ CallToStruct
    \/ CallStoreToStruct

SpecToStruct == ToStructInit /\ [][ToStructNext]_vars

\* ---------------------------------------------------------- conversions

\* The quantities the chains start from.
Measured(family) ==
    CASE family = "Temperature" ->
            {New(F32FromInt(68), "Fahrenheit"), New(F32FromInt(20), "Celsius"),
             New(F32FromInt(293), "Kelvin"), New(F32FromInt(-40), "Fahrenheit"),
             New(F32FromInt(100), "Fahrenheit"), New(F32FromInt(0), "Celsius"),
             New(F32FromInt(122), "Fahrenheit"), New(F32FromInt(-10), "Celsius")}
      [] family = "Speed" ->
            {New(F32FromInt(180), "Mph"), New(F32FromInt(10), "Kph"),
             New(F32FromInt(15), "Knots"), New(F32FromInt(5), "Mps"),
             New(F32FromInt(127), "Knots"), New(F32FromInt(1099), "Mps")}
      [] family = "Pressure" ->
            {New(F32FromInt(897), "Mbar"), New(F32FromInt(1013), "HPa"),
             New(F32FromInt(30), "InHg"), New(F32FromInt(14), "Psi"),
             New(F32FromInt(1), "Atm"), New(F32FromInt(1023), "HPa")}
      [] family = "Distance" ->
            {New(F32FromInt(1500), "Meter"), New(F32FromInt(3), "Kilometer"),
             New(F32FromInt(5000), "Feet"), New(F32FromInt(10), "Mile"),
             New(F32FromInt(2), "NauticalMile"), New(F32FromInt(257), "Kilometer")}

Families == {"Temperature", "Speed", "Pressure", "Distance"}

ConvertInit == Blank

\* new: a quantity of some family.
Measure ==
    \E family \in Families : \E q \in Measured(family) :
        /\ conversion' = [family |-> family, origin |-> q, current |-> q]
        /\ result' = NoCall
        /\ UNCHANGED OtherThanConversion

\* convert: the next link of the chain, to any unit of the family.
ConvertTo ==
    \E unit \in UnitsOf(conversion.family) :
        /\ conversion' = [conversion EXCEPT
                             !.current = convert(conversion.family,
                                                 conversion.current, unit)]
        /\ result' = NoCall
        /\ UNCHANGED OtherThanConversion

ConvertNext ==
    \/ Measure
    \/ ConvertTo

SpecConvert == ConvertInit /\ [][ConvertNext]_vars

\* ----------------------------------------------------------- the database

\* The observations stored under a timestamp, the children a fetch can
\* deliver (up to two entries), and the instants trim can sample.
Entries == {"a", "b"}
Children ==
    {child \in [EntryTimes -> Opt(Entries)] :
        Cardinality({dt \in EntryTimes : child[dt] # None}) <= 2}

DataOf(data) == [station_db EXCEPT !.data = data]

DbInit == Blank

\* add, called on the database: the loop runs under the lock.
CallDbAdd ==
    \E child \in Children : \E replace \in BOOLEAN :
        /\ station_db' = DataOf(add(station_db.data, child, replace))
        /\ result' = [op |-> "add", before |-> station_db.data,
                      child |-> child, replace |-> replace]
        /\ UNCHANGED OtherThanStationDb

\* trim, called on the database: now is sampled, then the loop runs under
\* the lock.
CallDbTrim ==
    \E now \in Nows :
        /\ station_db' = DataOf(trim(station_db.data, now))
        /\ result' = [op |-> "trim", before |-> station_db.data, now |-> now]
        /\ UNCHANGED OtherThanStationDb

DbNext ==
    \/ CallDbAdd
    \/ CallDbTrim

SpecDb == DbInit /\ [][DbNext]_vars

\* -------------------------------------------------------------- full_update

\* What a fetch hands to full_update: it failed, or a child of at most one
\* observation.
Fetched ==
    {Err} \cup
    {Ok(child) : child \in {ch \in [EntryTimes -> Opt({"a"})] :
                     Cardinality({dt \in EntryTimes : ch[dt] # None}) <= 1}}

\* What a file holds after File::create and the writer failed.
Truncated == [tag |-> "Truncated"]

Step(step, date) == [step |-> step, date |-> date]

CallOf(c) == station_db.calls[c]

\* The call goes on: its fields as given, the rest of the database as given.
Proceed(c, data, files, call) ==
    station_db' = [data |-> data, files |-> files,
                   calls |-> [station_db.calls EXCEPT ![c] = call]]

UpdateInit == Blank

\* full_update is called.
Begin(c) ==
    \E child \in Fetched : \E replace \in BOOLEAN : \E date \in Dates :
        /\ CallOf(c).pc \in {"idle", "done"}
        /\ Proceed(c, station_db.data, station_db.files,
                   [IdleCall EXCEPT !.pc = "add", !.child = child,
                                    !.replace = replace, !.date = date])
        /\ result' = NoCall
        /\ UNCHANGED OtherThanStationDb

\* self.add(child.unwrap_or_default(), replace): the loop, under the lock.
\* The child is moved into add.
AddStep(c) ==
    /\ CallOf(c).pc = "add"
    /\ Proceed(c, add(station_db.data, unwrap_or_default(CallOf(c).child),
                      CallOf(c).replace),
               station_db.files,
               [CallOf(c) EXCEPT
                    !.pc = "export1",
                    !.child = Err,
                    !.replace = FALSE,
                    !.failed_fetch = CallOf(c).child = Err,
                    !.log = Append(@, Step("add", CallOf(c).date)),
                    !.before = station_db.data,
                    !.added = add(station_db.data,
                                  unwrap_or_default(CallOf(c).child),
                                  CallOf(c).replace)])
    /\ result' = NoCall
    /\ UNCHANGED OtherThanStationDb

\* The date of the export the call is at.
ExportDate(call) ==
    IF call.pc \in {"export1", "write1"} THEN call.date
    ELSE call.date - days(1)

\* export, first half: the day's entries are copied under the lock.
Snapshot(c) ==
    /\ CallOf(c).pc \in {"export1", "export2"}
    /\ Proceed(c, station_db.data, station_db.files,
               [CallOf(c) EXCEPT
                    !.pc = IF @ = "export1" THEN "write1" ELSE "write2",
                    !.write_tree = export_tree(station_db.data,
                                               ExportDate(CallOf(c)))])
    /\ result' = NoCall
    /\ UNCHANGED OtherThanStationDb

\* The file of a day after an export of the tree.
Written(files, day, write_tree, failure) ==
    CASE failure = "none"   -> [files EXCEPT ![day] = Some(write_tree)]
      [] failure = "create" -> files
      [] failure = "write"  -> [files EXCEPT ![day] = Truncated]

\* The call after the file was written or was not; the tree is dropped.
Exported(call, failure) ==
    [call EXCEPT
        !.pc = after_export(failure = "none",
                            IF @ = "write1" THEN "export2" ELSE "trim_now"),
        !.write_tree = NoData,
        !.log = Append(@, Step(IF failure = "none" THEN "export"
                               ELSE "export failed",
                               ExportDate(call))),
        !.returned = IF after_export(failure = "none", "on") = "done"
                     THEN "Err" ELSE "none"]

\* export, second half: the file is created and written without the lock;
\* either can fail.
WriteFile(c) ==
    \E failure \in {"none", "create", "write"} :
        /\ CallOf(c).pc \in {"write1", "write2"}
        /\ Proceed(c, station_db.data,
                   Written(station_db.files, date_naive(ExportDate(CallOf(c))),
                           CallOf(c).write_tree, failure),
                   Exported(CallOf(c), failure))
        /\ result' = NoCall
        /\ UNCHANGED OtherThanStationDb

\* trim, first line: Utc::now().
TrimSample(c) ==
    \E now \in Nows :
        /\ CallOf(c).pc = "trim_now"
        /\ Proceed(c, station_db.data, station_db.files,
                   [CallOf(c) EXCEPT !.pc = "trim", !.now = now])
        /\ result' = NoCall
        /\ UNCHANGED OtherThanStationDb

\* trim, the loop under the lock; full_update returns Ok.
TrimStep(c) ==
    /\ CallOf(c).pc = "trim"
    /\ Proceed(c, trim(station_db.data, CallOf(c).now), station_db.files,
               [CallOf(c) EXCEPT
                    !.pc = "done",
                    !.now = 0,
                    !.log = Append(@, Step("trim", CallOf(c).date)),
                    !.trimmed = station_db.data # trim(station_db.data,
                                                       CallOf(c).now),
                    !.returned = "Ok"])
    /\ result' = NoCall
    /\ UNCHANGED OtherThanStationDb

\* One caller, one full_update after the other.
UpdateNext ==
    \/ Begin(1)
    \/ AddStep(1)
    \/ Snapshot(1)
    \/ WriteFile(1)
    \/ TrimSample(1)
    \/ TrimStep(1)

SpecUpdate == UpdateInit /\ [][UpdateNext]_vars

\* ------------------------------------------------- concurrent full_update

ConcurrentInit == Blank

\* full_update is called by a task, once, for the date of the calls that
\* are already running.
BeginTogether(c) ==
    \E child \in Fetched : \E replace \in BOOLEAN : \E date \in Dates :
        /\ CallOf(c).pc = "idle"
        /\ \A other \in Callers :
              CallOf(other).pc # "idle" => CallOf(other).date = date
        /\ Proceed(c, station_db.data, station_db.files,
                   [IdleCall EXCEPT !.pc = "add", !.child = child,
                                    !.replace = replace, !.date = date])
        /\ result' = NoCall
        /\ UNCHANGED OtherThanStationDb

\* The tasks run in parallel: between two awaits of one call, and between
\* the unlock and the file write of an export, the other call takes steps.
ConcurrentNext ==
    \E c \in Callers :
        \/ BeginTogether(c)
        \/ AddStep(c)
        \/ Snapshot(c)
        \/ WriteFile(c)
        \/ TrimSample(c)
        \/ TrimStep(c)

SpecConcurrent == ConcurrentInit /\ [][ConcurrentNext]_vars

\* ------------------------------------------- quasi-calculated fields

QuasiTemperatures == {New(F32FromInt(n), "Fahrenheit") : n \in {30, 70}}
QuasiDewpoints == {New(F32FromInt(n), "Fahrenheit") : n \in {10, 72}}
QuasiHumidities == {New(F32FromInt(n), "Percent") : n \in {40, 90}}

\* A TestLayer and a WxEntryLayerStruct have no relative-humidity field.
Backings ==
    {b \in [kind : BackingKinds, temperature : Opt(QuasiTemperatures),
            dewpoint : Opt(QuasiDewpoints),
            relative_humidity : Opt(QuasiHumidities)] :
        b.kind # "LayerHash" => b.relative_humidity = None}

QuasiInit == Blank

NewBacking ==
    \E b \in Backings :
        /\ backing' = b
        /\ result' = NoCall
        /\ UNCHANGED OtherThanBacking

CallQuasiDewpoint ==
    /\ result' = Call("dewpoint", dewpoint_of(backing, StackLimit))
    /\ UNCHANGED <<backing, OtherThanBacking>>

CallQuasiRelativeHumidity ==
    /\ result' = Call("relative_humidity", relative_humidity_of(backing, StackLimit))
    /\ UNCHANGED <<backing, OtherThanBacking>>

QuasiNext ==
    \/ NewBacking
    \/ CallQuasiDewpoint
    \/ CallQuasiRelativeHumidity

SpecQuasi == QuasiInit /\ [][QuasiNext]_vars

\* ------------------------------------------------- sky cover of a row

\* The cover codes of a row, VV being none of the six known ones, and the
\* reported height of a layer in feet.
CoverCodes == {"SKC", "CLR", "FEW", "SCT", "BKN", "OVC", "VV"}
SkyLevels == {2500}

MaxSkyLayers == 2

SkyInit == Blank

AppendSkyColumn ==
    \E c \in Opt(CoverCodes) : \E l \in Opt(SkyLevels) :
        /\ Len(ob.skycover) < MaxSkyLayers
        /\ ob' = [skycover |-> Append(ob.skycover, c),
                  skylevel |-> Append(ob.skylevel, l)]
        /\ result' = NoCall
        /\ UNCHANGED OtherThanOb

\* The row is made into the observation: skycover_from_vecs(..).ok()
FetchSkycover ==
    /\ obs' = [obs EXCEPT !.skycover =
                  Result_ok(skycover_from_vecs(ob.skycover, ob.skylevel))]
    /\ result' = NoCall
    /\ UNCHANGED OtherThanObs

\* The u8 that oktas() returns is recorded as Some of it, its panic as Panic.
CallOktas ==
    /\ obs.skycover # None
    /\ result' = Call("oktas",
                      IF obs.skycover.val = Cloudy(<<>>)
                      THEN oktas(obs.skycover.val)
                      ELSE Some(oktas(obs.skycover.val)))
    /\ UNCHANGED <<obs, OtherThanObs>>

SkyNext ==
    \/ AppendSkyColumn
    \/ FetchSkycover
    \/ CallOktas
    \/ CallComfortIndex

SpecSky == SkyInit /\ [][SkyNext]_vars

\* ------------------------------------------------- properties: the layer

Fahrenheit(n) == New(F32FromInt(n), "Fahrenheit")
Mph(n) == New(F32FromInt(n), "Mph")

\* The stored readings against the thresholds, in the units they are stored in.
TemperatureKnown == layer.temperature # None
WindKnown == layer.wind_speed # None
HumidityKnown == layer.relative_humidity # None
TemperatureBelow(n) ==
    TemperatureKnown /\ F32Lt(layer.temperature.val.value, F32FromInt(n))
TemperatureAbove(n) ==
    TemperatureKnown /\ F32Gt(layer.temperature.val.value, F32FromInt(n))
WindAbove(n) ==
    WindKnown /\ F32Gt(layer.wind_speed.val.value, F32FromInt(n))
HumidityAbove(n) ==
    HumidityKnown /\ F32Gt(layer.relative_humidity.val.value, F32FromInt(n))

\* C1: apparent_temp is the heat index when the heat index applies, otherwise
\* the wind chill when the wind chill applies, otherwise the temperature when
\* both are known not to apply, and absent when the temperature is missing or
\* either applicability is unknown; 51 F without wind gives 51 F, 49 F without
\* wind gives nothing, 49 F with 2 mph gives 49 F, 81 F without humidity gives
\* nothing.
C1_ApparentTempPolicy ==
    result.op = "apparent_temp" =>
        /\ heat_index_valid(layer) = Some(TRUE) => result.val = heat_index(layer)
        /\ heat_index_valid(layer) # Some(TRUE) /\ wind_chill_valid(layer) = Some(TRUE)
              => result.val = wind_chill(layer)
        /\ heat_index_valid(layer) = Some(FALSE) /\ wind_chill_valid(layer) = Some(FALSE)
              => result.val = layer.temperature
        /\ ~TemperatureKnown \/ heat_index_valid(layer) = None
                             \/ wind_chill_valid(layer) = None
              => result.val = None
        /\ layer.temperature = Some(Fahrenheit(51)) /\ ~WindKnown
              => result.val = Some(Fahrenheit(51))
        /\ layer.temperature = Some(Fahrenheit(49)) /\ ~WindKnown
              => result.val = None
        /\ layer.temperature = Some(Fahrenheit(49)) /\ layer.wind_speed = Some(Mph(2))
              => result.val = Some(Fahrenheit(49))
        /\ layer.temperature = Some(Fahrenheit(81)) /\ ~HumidityKnown
              => result.val = None

C1_Witness ==
    /\ result.op = "apparent_temp"
    /\ layer.temperature = Some(Fahrenheit(49))
    /\ layer.wind_speed = Some(Mph(2))
    /\ result.val = Some(Fahrenheit(49))

C3_HeatIndexValidity ==
    /\ result.op = "heat_index_valid" =>
        /\ result.val = Some(TRUE) <=> (TemperatureAbove(80) /\ HumidityAbove(40))
        /\ TemperatureKnown /\ ~TemperatureAbove(80) => result.val = Some(FALSE)
        /\ TemperatureAbove(80) /\ HumidityKnown /\ ~HumidityAbove(40)
              => result.val = Some(FALSE)
        /\ result.val = None <=>
              (~TemperatureKnown \/ (TemperatureAbove(80) /\ ~HumidityKnown))
    /\ result.op = "heat_index" =>
        (result.val # None => TemperatureAbove(80) /\ HumidityAbove(40))

\* --------------------------------------------- properties: the observation

\* A layer from which slp() has what it asks for: pressure and temperature.
Reducible(l) ==
    /\ entry.layers[l] # None
    /\ entry.layers[l].val.pressure # None
    /\ entry.layers[l].val.temperature # None

\* The call returned the sea-level reduction of layer l.
ReturnedSlpOf(l) ==
    /\ result.val # StackOverflow
    /\ result.val # None
    /\ result.val = slp(entry.layers[l].val, latitude)

\* C4: best_slp returns the first available of the SeaLevel layer's pressure,
\* slp() of the NearSurface layer, slp() of the Indoor layer and the
\* altimeter-derived sea-level pressure; a later source is returned only when
\* every earlier one is absent, and the result is absent only when all four
\* are; an explicit sea-level reading wins over a derivable near-surface
\* reduction.
C4_BestSlpPriority ==
    result.op = "best_slp" =>
        /\ layer_pressure(entry, "SeaLevel") # None
              => result.val = layer_pressure(entry, "SeaLevel")
        /\ layer_pressure(entry, "SeaLevel") = None /\ Reducible("NearSurface")
              => ReturnedSlpOf("NearSurface")
        /\ layer_pressure(entry, "SeaLevel") = None /\ ~Reducible("NearSurface")
           /\ Reducible("Indoor")
              => ReturnedSlpOf("Indoor")
        /\ layer_pressure(entry, "SeaLevel") = None /\ ~Reducible("NearSurface")
           /\ ~Reducible("Indoor")
              => result.val = mslp_from_altimeter(entry)

\* ------------------------------------------- properties: present weather

\* The greater of two intensities in the order of IntensityOrder, by cases.
Greater(i, j) ==
    IF \E k \in DOMAIN IntensityOrder : \E n \in DOMAIN IntensityOrder :
          IntensityOrder[k] = i /\ IntensityOrder[n] = j /\ k >= n
    THEN i ELSE j

\* x has the OR of each qualifier and the greater intensity of each
\* category of a and b.
FieldwiseOf(x, a, b) ==
    /\ \A q \in Qualifiers : x[q] = (a[q] \/ b[q])
    /\ \A c \in Categories : x[c] = Greater(a[c], b[c])

CombineLawsOf(a, b, c) ==
    /\ combine(a, a) = a
    /\ combine(a, b) = combine(b, a)
    /\ FieldwiseOf(combine(a, b), a, b)
    /\ combine(a, combine(b, c)) = combine(combine(a, b), c)

\* C5: combine is commutative, associative and idempotent; it ORs each of
\* the eight qualifiers and takes the greater intensity of each of the seven
\* categories in the order None < Nearby < VeryLight < Light < Medium < Heavy.
C5_CombineLaws ==
    CombineLawsOf(operands[1], operands[2], operands[3])

C5_Witness ==
    /\ operands[1].rain = "Light"
    /\ operands[2].rain = "Heavy"
    /\ operands[2].thunderstorm
    /\ operands[3] = combine(operands[1], operands[2])

\* The token is among the matches of the code.
Matched(token) == contains(find_iter(code, 1), token)

\* The general intensity by the precedence VC, '-', '+', none of them.
PrecedenceIntensity ==
    CASE Matched(<<"V", "C">>) -> "Nearby"
      [] ~Matched(<<"V", "C">>) /\ Matched(<<"-">>) -> "Light"
      [] ~Matched(<<"V", "C">>) /\ ~Matched(<<"-">>) /\ Matched(<<"+">>) -> "Heavy"
      [] OTHER -> "Medium"

\* C6: the general intensity of a code is Nearby if VC is matched, else Light
\* if '-' is, else Heavy if '+' is, else Medium (seen in the categories that
\* take the general intensity); VC with '+' gives Nearby, '-' with '+' gives
\* Light.
C6_GeneralIntensityPrecedence ==
    result.op = "parse_code" =>
        /\ Matched(<<"R", "A">>) => result.val.rain = PrecedenceIntensity
        /\ Matched(<<"D", "U">>) => result.val.dust = PrecedenceIntensity
        /\ Matched(<<"P", "L">>) => result.val.falling_ice = PrecedenceIntensity
        /\ Matched(<<"S", "N">>) => result.val.snow = PrecedenceIntensity
        /\ code = <<"+", "V", "C", "R", "A">> => result.val.rain = "Nearby"
        /\ code = <<"-", "+", "R", "A">> => result.val.rain = "Light"

C6_Witness ==
    /\ result.op = "parse_code"
    /\ code = <<"+", "V", "C", "R", "A">>
    /\ result.val.rain = "Nearby"

\* C7 as stated: whenever DZ is matched the rain intensity is VeryLight,
\* whenever DS is matched the dust intensity is Heavy and whenever SS is
\* matched the sand intensity is Heavy, whatever else the code holds.
C7_ForcingTokensAlways ==
    result.op = "parse_code" =>
        /\ Matched(<<"D", "Z">>) => result.val.rain = "VeryLight"
        /\ Matched(<<"D", "S">>) => result.val.dust = "Heavy"
        /\ Matched(<<"S", "S">>) => result.val.sand = "Heavy"

\* C7 amended: a forcing token decides its category, whatever the intensity
\* markers, when the category's own general token is not matched: DZ without
\* RA gives rain VeryLight, DS without DU gives dust Heavy, SS without SA and
\* PO gives sand Heavy; with RA matched rain has the general intensity, and
\* with DU matched dust has it.
C7_ForcingTokensWithoutGeneralToken ==
    result.op = "parse_code" =>
        /\ Matched(<<"D", "Z">>) /\ ~Matched(<<"R", "A">>)
              => result.val.rain = "VeryLight"
        /\ Matched(<<"D", "S">>) /\ ~Matched(<<"D", "U">>)
              => result.val.dust = "Heavy"
        /\ Matched(<<"S", "S">>) /\ ~Matched(<<"S", "A">>) /\ ~Matched(<<"P", "O">>)
              => result.val.sand = "Heavy"
        /\ Matched(<<"D", "Z">>) /\ Matched(<<"R", "A">>)
              => result.val.rain = PrecedenceIntensity
        /\ Matched(<<"D", "S">>) /\ Matched(<<"D", "U">>)
              => result.val.dust = PrecedenceIntensity

C7_Witness ==
    /\ result.op = "parse_code"
    /\ code = <<"+", "D", "Z">>
    /\ result.val.rain = "VeryLight"

\* ------------------------------------------------- properties: directions

\* The multiple of 10 nearest to d, the upper one of two equally near.
NearestTen(d) == CHOOSE t \in 0..(d + 5) : t % 10 = 0 /\ d - 5 < t /\ t <= d + 5

\* C8: from_degrees(d) for d in 0..=360 succeeds with d rounded to the nearest
\* multiple of 10 (ties up) and reduced modulo 360, a multiple of 10 in
\* [0, 350] (355..=360 give 0); for d > 360 it is an error.
C8_FromDegrees ==
    result.op = "from_degrees" =>
        /\ raw_degrees <= 360 =>
              /\ result.val = Ok(NearestTen(raw_degrees) % 360)
              /\ result.val.val % 10 = 0
              /\ result.val.val \in 0..350
        /\ raw_degrees \in 355..360 => result.val = Ok(0)
        /\ raw_degrees > 360 => result.val = Err

C8_Witness ==
    /\ result.op = "from_degrees"
    /\ raw_degrees = 355
    /\ result.val = Ok(0)

\* ---------------------------------------------- properties: the sparse store

\* The value put under the parameter, when it has the accessor's type.
Native(param) == get(store, "NearSurface", param, TypeOf(param))

\* The accessor of the parameter was called and a native value was there.
CalledWithNative(op, param) == result.op = op /\ Native(param) # None

\* C9: each quasi-calculated accessor of LayerHash returns the value stored
\* under its own key whenever one was put, whichever other keys are present:
\* dewpoint() without Temperature or RelativeHumidity, relative_humidity()
\* without Temperature or Dewpoint, wind_speed(), wind_direction() and wind()
\* without the other wind keys.
C9_NativeValueReturned ==
    /\ CalledWithNative("dewpoint", "Dewpoint") => result.val = Native("Dewpoint")
    /\ CalledWithNative("relative_humidity", "RelativeHumidity")
          => result.val = Native("RelativeHumidity")
    /\ CalledWithNative("wind_speed", "WindSpeed") => result.val = Native("WindSpeed")
    /\ CalledWithNative("wind_direction", "WindDirection")
          => result.val = Native("WindDirection")
    /\ CalledWithNative("wind", "Wind") => result.val = Native("Wind")

\* What get::<U> is to return for a key whose last written value is last.
LastWritten(last, U) ==
    IF last = None THEN None
    ELSE IF last.val.type # U THEN None
    ELSE Some(last.val.val)

\* C19: after any sequence of put and put_opt calls, get::<U>(layer, param)
\* returns the value of the most recent put for that key if it has type U,
\* and nothing if the key was never written or its last value has another
\* type; a put_opt of nothing and a put to another key leave what a key
\* returns unchanged.
C19_GetReflectsLastWrite ==
    /\ \A param \in StoreParams : \A U \in {TypeOf(param), "String"} :
          get(store, "NearSurface", param, U)
              = LastWritten(written[<<"NearSurface", param>>], U)
    /\ result.op = "get" =>
          result.val = LastWritten(written[<<"NearSurface", result.param>>],
                                   TypeOf(result.param))

\* A key whose last value has another type reads as nothing while another
\* key reads its value.
C19_Witness ==
    /\ result.op = "get"
    /\ result.param = "Dewpoint"
    /\ written[<<"NearSurface", "Dewpoint">>] # None
    /\ written[<<"NearSurface", "Dewpoint">>].val.type = "String"
    /\ result.val = None
    /\ get(store, "NearSurface", "Temperature", "Temperature") # None

\* ---------------------------------------------- properties: the comfort index

\* The seven sub-scores of the observation.
SubScores == factors(obs, surface(obs), WxEntry_wx(obs))

\* comfort_index was called and returned a score.
Scored == result.op = "comfort_index" /\ result.val.tag = "Some"

\* C10: the penalties can only make comfort worse: whenever comfort_index
\* returns a score, the score is at most every sub-score of a present signal,
\* whatever the thunderstorm, snow and funnel-cloud modifiers are.
C10_PenaltiesOnlyWorsen ==
    Scored =>
        \A i \in DOMAIN SubScores :
            SubScores[i][1] # None => result.val.val[1] <= SubScores[i][1].val

\* comfort_index was called and returned (it did not panic).
Returned == result.op = "comfort_index" /\ result.val # Panic

\* The signals that are present, by their place in the array.
Present == {i \in DOMAIN SubScores : SubScores[i][1] # None}

\* The least sub-score of the present signals.
PresentMin ==
    CHOOSE n \in {SubScores[i][1].val : i \in Present} :
        \A i \in Present : n <= SubScores[i][1].val

\* The sum of the three modifiers of the observation.
Modifiers ==
    lightning_modifier(WxEntry_wx(obs)) + snow_modifier(WxEntry_wx(obs))
        + tornado_modifier(WxEntry_wx(obs))

\* C11: absent signals are excluded from the minimum: whenever at least one
\* signal is present, comfort_index returns a result, the result's score is
\* the one made from the minimum over the present sub-scores, and the
\* limiting factor is a present signal with that sub-score; an absent signal
\* never makes the result absent.
C11_AbsentSignalsExcluded ==
    Returned /\ Present # {} =>
        /\ result.val # None
        /\ result.val.val[1] = MinU8(PresentMin + Modifiers, 10)
        /\ \E i \in Present :
              /\ SubScores[i][2] = result.val.val[2]
              /\ SubScores[i][1].val = PresentMin

\* C12: every score comfort_index returns lies in 0..10, also when the
\* thunderstorm, snow and funnel-cloud modifiers all apply at once, and the
\* sum of the sub-score and the modifiers fits a u8 before it is capped.
C12_ScoreInRange ==
    Scored =>
        /\ result.val.val[1] \in 0..10
        /\ min_by(SubScores)[1].val + Modifiers \in 0..255

C12_Witness ==
    /\ Scored
    /\ lightning_modifier(WxEntry_wx(obs)) = 5
    /\ snow_modifier(WxEntry_wx(obs)) = 10
    /\ tornado_modifier(WxEntry_wx(obs)) = 10
    /\ result.val.val[1] = 10

\* The surface temperature is reported and reads at least lo and below hi
\* degrees Fahrenheit.
SurfaceTemperatureIn(lo, hi) ==
    /\ obs.surface # None
    /\ obs.surface.val.temperature # None
    /\ F32Ge(temperature_value_in(obs.surface.val.temperature.val, "Fahrenheit"),
             F32FromInt(lo))
    /\ F32Lt(temperature_value_in(obs.surface.val.temperature.val, "Fahrenheit"),
             F32FromInt(hi))

\* A clear sky, no wind, no dewpoint and no present-weather code.
ClearAndCalm ==
    /\ obs.skycover = Some(Clear)
    /\ obs.surface # None
    /\ obs.surface.val.wind = None
    /\ obs.surface.val.dewpoint = None
    /\ obs.wx_codes \in {None, Some(<<>>)}

\* C13: a clear-sky, calm observation with a surface temperature in the
\* 65-77 F band, no dewpoint and no present-weather codes gets the comfort
\* score 10.
C13_ClearCalmMildScoresTen ==
    result.op = "comfort_index" /\ ClearAndCalm /\ SurfaceTemperatureIn(65, 77) =>
        /\ result.val # None
        /\ result.val.val[1] = 10

\* The snow penalty as stated: 10 with thunder or squalls, else by intensity.
StatedSnowPenalty(w) ==
    IF w.snow \in {"None", "Nearby"} THEN 0
    ELSE IF w.thunderstorm \/ w.squalls THEN 10
    ELSE CASE w.snow = "VeryLight" -> 1
           [] w.snow = "Light" -> 2
           [] w.snow = "Medium" -> 3
           [] w.snow = "Heavy" -> 5

\* C14: the snow penalty is 10 whenever snow is VeryLight or stronger and the
\* combined present weather has the thunderstorm or the squalls flag; without
\* them it is 1, 2, 3, 5 for VeryLight, Light, Medium, Heavy, and 0 when snow
\* is None or Nearby; the score comfort_index returns is made with it.
C14_SnowPenalty ==
    Returned /\ WxEntry_wx(obs) # None =>
        /\ snow_modifier(WxEntry_wx(obs)) = StatedSnowPenalty(WxEntry_wx(obs).val)
        /\ Scored =>
              result.val.val[1] =
                  MinU8(min_by(SubScores)[1].val
                            + lightning_modifier(WxEntry_wx(obs))
                            + StatedSnowPenalty(WxEntry_wx(obs).val)
                            + tornado_modifier(WxEntry_wx(obs)), 10)

\* The places of the present signals in an array of sub-scores, and the
\* least of their sub-scores.
PresentIn(fs) == {i \in DOMAIN fs : fs[i][1] # None}
LeastIn(fs, present) ==
    CHOOSE n \in {fs[i][1].val : i \in present} : \A i \in present : n <= fs[i][1].val

\* The factor is that of the first present signal of fs that scores least.
FirstLeast(fs, present, least, factor) ==
    \E i \in present :
        /\ factor = fs[i][2]
        /\ fs[i][1].val = least
        /\ \A j \in present : j < i => fs[j][1].val > least

FirstLeastOf(fs, present, factor) ==
    FirstLeast(fs, present, LeastIn(fs, present), factor)

\* C15: the limiting factor is, among the present signals whose sub-score is
\* the minimum, the first in the order Temperature, CloudCover, HeatIndex,
\* WindChill, Rain, DryAir, Humidity.
C15_FirstOfEqualMinima ==
    Scored => FirstLeastOf(SubScores, PresentIn(SubScores), result.val.val[2])

\* Temperature and Rain both score 4, the least: Temperature is reported.
C15_Witness ==
    /\ Scored
    /\ SubScores[1] = <<Some(4), "Temperature">>
    /\ SubScores[5] = <<Some(4), "Rain">>
    /\ PresentMin = 4
    /\ result.val.val[2] = "Temperature"

\* The combined present weather has the freezing flag and rain that is
\* VeryLight or stronger.
FreezingRain(wx) ==
    /\ wx # None
    /\ wx.val.freezing
    /\ wx.val.rain \notin {"None", "Nearby"}

\* The score is the one made from the sub-score 0, and the factor reported
\* is one of fs that scores 0.
WorstOf(fs, modifiers, res) ==
    /\ res # None
    /\ res.val[1] = MinU8(0 + modifiers, 10)
    /\ \E i \in DOMAIN fs : fs[i] = <<Some(0), res.val[2]>>

\* C16: whenever the combined present weather has the freezing flag and rain
\* of intensity VeryLight or stronger, the rain sub-score is 0, before the fog
\* rule and the rain-intensity table, so the score before the penalties is 0
\* and the limiting factor is one that scores 0.
C16_FreezingRainIsWorst ==
    Returned /\ FreezingRain(WxEntry_wx(obs)) =>
        /\ SubScores[5] = <<Some(0), "Rain">>
        /\ WorstOf(SubScores, Modifiers, result.val)

\* Freezing rain in fog: the rain sub-score is 0, not the 9 of fog.
C16_Witness ==
    /\ Returned
    /\ FreezingRain(WxEntry_wx(obs))
    /\ WxEntry_wx(obs).val.fog
    /\ result.val = Some(<<0, "Rain">>)

\* ------------------------------------------------- properties: arithmetic

\* C17: subtraction normalizes the right operand into the left operand's
\* unit: a - b has a's unit and its value is a's value minus b's value
\* converted into a's unit, so x - 0 = x.
C17_SubNormalizesRight ==
    result.op = "sub" =>
        /\ result.val.unit = quantities[1].unit
        /\ result.val.value =
              F32Sub(quantities[1].value,
                     ProportionalConvert(quantities[2], quantities[1].unit).value)
        /\ quantities[2].value = F32Zero => result.val = quantities[1]

\* ------------------------------------------------ properties: layer heights

Metres(n) == New(F32FromInt(n), "Meter")

\* The height above the ground as stated, for the variants that have one.
StatedHeightAgl(l, altitude) ==
    CASE l.tag = "Indoor"      -> Metres(1)
      [] l.tag = "NearSurface" -> Metres(2)
      [] l.tag = "SeaLevel"    -> New(F32Neg(altitude.value), altitude.unit)
      [] l.tag = "AGL"         -> Metres(l.a)
      [] l.tag = "MSL"         ->
            New(F32Sub(F32FromInt(l.a), value_in(altitude, "Meter")), "Meter")

\* C18: Layer::height_agl(station_altitude) gives a height for every variant
\* but the barometric one: Indoor 1 m, NearSurface 2 m, SeaLevel minus the
\* station altitude, AGL(a) a m, MSL(a) a m minus the station altitude; MBAR
\* gives nothing, and then the layer has no height above sea level either
\* unless one is stored.
C18_LayerHeightAgl ==
    /\ result.op = "Layer::height_agl" =>
        /\ struct_layer.layer.tag # "MBAR" => result.val # None
        /\ struct_layer.layer.tag \notin {"MBAR", "All"} =>
              result.val = Some(StatedHeightAgl(struct_layer.layer, station.altitude))
        /\ struct_layer.layer.tag = "MBAR" => result.val = None
    /\ result.op = "height_msl" =>
        (struct_layer.layer.tag = "MBAR" /\ struct_layer.height_msl = None
            => result.val = None)

\* ------------------------------------------------- properties: to_struct

\* The backing the last to_struct was called on.
CalledOn == IF result.kind = "HashMapWx" THEN SparseStore(store) ELSE record

\* The layers of a produced record.
ProducedLayers(produced) == {l \in DOMAIN produced.layers : produced.layers[l] # None}

\* The produced layer carries what the accessors of the source view return.
Carries(kind, made, v) ==
    /\ made.temperature = view_temperature(kind, v)
    /\ made.pressure = view_pressure(kind, v)
    /\ made.dewpoint = view_dewpoint(kind, v)
    /\ made.visibility = view_visibility(kind, v)
    /\ made.wind = view_wind(kind, v)

Materializes(self, res) ==
    /\ res.tag = "Ok"
    /\ ProducedLayers(res.val) = self_layers(self)
    /\ \A l \in self_layers(self) :
          /\ res.val.layers[l] # None
          /\ Carries(self.kind, res.val.layers[l].val, self_layer(self, l).val)

\* C20: to_struct succeeds on every backing, and the record it produces has
\* exactly the layers layers() lists, each carrying the temperature,
\* pressure, dewpoint, visibility and wind its source layer returns.
C20_ToStructMaterializes ==
    result.op = "to_struct" => Materializes(CalledOn, result.val)

\* ----------------------------------------------- properties: conversions

\* 0.001, the tolerance of the temperature readings, and 2^-20, the relative
\* tolerance of the proportional quantities (eight units in the last place).
TemperatureTolerance == F32Lit(1, 1000)
RelativeTolerance == F32Of(FALSE, 8388608, -43)

Near(a, b, tolerance) == F32Lt(F32Abs(F32Sub(a, b)), tolerance)

\* The value read back in the unit of x is the value of x, within tolerance.
ReadsBack(family, x, back) ==
    IF family = "Temperature" THEN Near(back.value, x.value, TemperatureTolerance)
    ELSE ~F32Gt(F32Abs(F32Sub(back.value, x.value)),
                F32Mul(F32Abs(x.value), RelativeTolerance))

\* 68 F is 20 C and 293.15 K, whatever the chain made of it.
SixtyEight(c) ==
    c.origin = New(F32FromInt(68), "Fahrenheit") =>
        /\ Near(temperature_value_in(c.current, "Celsius"), F32FromInt(20),
                TemperatureTolerance)
        /\ Near(temperature_value_in(c.current, "Kelvin"), F32Lit(29315, 100),
                TemperatureTolerance)

\* C21: after any chain of conversions among the units of its family, a
\* quantity converted back to its original unit has its original value
\* within tolerance; a temperature goes through Kelvin and stays within
\* 0.001, and 68 F stays 20 C and 293.15 K.
C21_ConversionRoundTrips ==
    /\ ReadsBack(conversion.family, conversion.origin,
                 convert(conversion.family, conversion.current,
                         conversion.origin.unit))
    /\ SixtyEight(conversion)

\* 68 F, converted away and back: 68.00003 F.
C21_Witness ==
    /\ conversion.origin = New(F32FromInt(68), "Fahrenheit")
    /\ conversion.current.unit = "Fahrenheit"
    /\ conversion.current.value # conversion.origin.value

\* ----------------------------------------------- properties: the database

KeysOf(data) == {dt \in DOMAIN data : data[dt] # None}

\* What the database holds under k after add, by the statement of add.
StatedAdd(before, child, replace, k) ==
    IF child[k] # None /\ (replace \/ before[k] = None) THEN child[k]
    ELSE before[k]

AddedAsStated(before, child, replace, data) ==
    /\ \A k \in EntryTimes : data[k] = StatedAdd(before, child, replace, k)
    /\ KeysOf(data) = KeysOf(before) \cup KeysOf(child)

\* C22: after add(child, replace) every timestamp of the child holds the
\* child's entry when replace is set or the timestamp was new, and its
\* previous entry otherwise; every other timestamp keeps its entry, and the
\* keys are those of the database and of the child together.
C22_AddInsertsOrReplaces ==
    result.op = "add" =>
        AddedAsStated(result.before, result.child, result.replace, station_db.data)

\* An add without replace of a child with an entry for a timestamp the
\* database has (kept) and one it has not (inserted).
C22_Witness ==
    /\ result.op = "add"
    /\ ~result.replace
    /\ \E k \in EntryTimes :
          /\ result.before[k] # None
          /\ result.child[k] # None
          /\ result.child[k] # result.before[k]
          /\ station_db.data[k] = result.before[k]
    /\ \E k \in EntryTimes :
          /\ result.before[k] = None
          /\ result.child[k] # None
          /\ station_db.data[k] = result.child[k]

TrimmedAsStated(before, now, data) ==
    \A k \in EntryTimes :
        data[k] = IF k < now - days(2) THEN None ELSE before[k]

\* C23: trim removes exactly the entries earlier than two days before the
\* instant it sampled; every other entry stays as it was, none is added.
C23_TrimRemovesOlderThanTwoDays ==
    result.op = "trim" =>
        /\ TrimmedAsStated(result.before, result.now, station_db.data)
        /\ KeysOf(station_db.data) \subseteq KeysOf(result.before)

\* A trim that removed an entry and kept the one exactly two days old.
C23_Witness ==
    /\ result.op = "trim"
    /\ result.now - days(2) \in EntryTimes
    /\ result.before[result.now - days(2)] # None
    /\ station_db.data[result.now - days(2)] # None
    /\ \E k \in EntryTimes :
          /\ k < result.now - days(2)
          /\ result.before[k] # None
          /\ station_db.data[k] = None

\* ------------------------------------------------ properties: full_update

\* The steps of a full_update for a date, in their order.
StatedSteps(date) ==
    <<Step("add", date), Step("export", date),
      Step("export", date - days(1)), Step("trim", date)>>

\* The last step of the log is an export that failed.
ExportFailed(log) == log # <<>> /\ log[Len(log)].step = "export failed"

\* The log follows the stated steps; only its last step can be a failed
\* export, in the place and for the date of a stated export.
InStatedOrder(log, stated) ==
    /\ Len(log) <= Len(stated)
    /\ \A i \in 1..Len(log) :
          \/ log[i] = stated[i]
          \/ /\ i = Len(log)
             /\ log[i] = Step("export failed", stated[i].date)
             /\ stated[i].step = "export"

UpdatedAsStated(call, data) ==
    /\ InStatedOrder(call.log, StatedSteps(call.date))
    /\ ExportFailed(call.log) =>
          /\ call.pc = "done"
          /\ call.returned = "Err"
          /\ ~call.trimmed
          /\ data = call.added
    /\ call.returned = "Err" => ExportFailed(call.log)
    /\ call.returned = "Ok" => call.log = StatedSteps(call.date)
    /\ call.failed_fetch => call.added = call.before

\* C25: full_update adds, exports the date, exports the day before, then
\* trims; a failed fetch adds nothing; when an export fails the call
\* returns the error at once: nothing is trimmed, no later step runs and
\* what add inserted stays.
C25_FullUpdateOrder == UpdatedAsStated(CallOf(1), station_db.data)

\* The second export failed after add had inserted an entry.
C25_Witness ==
    /\ CallOf(1).returned = "Err"
    /\ Len(CallOf(1).log) = 3
    /\ CallOf(1).added # CallOf(1).before
    /\ station_db.data = CallOf(1).added

\* ------------------------------------- properties: concurrent full_update

AllReturnedOk == \A c \in Callers : CallOf(c).returned = "Ok"

\* The file of the day holds every entry of that day that is in the data.
FileHoldsDay(data, file, day) ==
    \A dt \in KeysOf(data) :
        date_naive(dt) = day =>
            /\ file # None
            /\ file # Truncated
            /\ file.val[dt] = data[dt]

\* C26: once every concurrent full_update for a date has returned Ok, the
\* file of that date holds every entry of that day that is in the database.
C26_NoStaleExport ==
    AllReturnedOk =>
        FileHoldsDay(station_db.data,
                     station_db.files[date_naive(CallOf(1).date)],
                     date_naive(CallOf(1).date))

\* ------------------------------------------ properties: wind chill at 3 mph

\* float_within_one_decimal of the tests: strictly within 0.1.
WithinOneDecimal(val, cmp) ==
    /\ F32Lt(val, F32Add(cmp, F32Lit(1, 10)))
    /\ F32Gt(val, F32Sub(cmp, F32Lit(1, 10)))

\* C24: at 49 F with a wind of exactly 3 mph apparent_temp is the wind
\* chill, about 48.1 F, not the temperature of 49 F.
C24_WindChillAtThreeMph ==
    /\ result.op = "apparent_temp"
    /\ layer.temperature = Some(Fahrenheit(49))
    /\ layer.wind_speed = Some(Mph(3))
    => /\ result.val # None
       /\ result.val # layer.temperature
       /\ WithinOneDecimal(temperature_value_in(result.val.val, "Fahrenheit"),
                           F32Lit(481, 10))

\* -------------------------------- properties: the default height accessors

\* The call came back to its caller.
CameBack == result.val # StackOverflow

\* C27: height_msl(), slp() and best_slp() return for every layer of the
\* observation, and slp() of a NearSurface layer that has pressure and
\* temperature returns a value.
C27_HeightAccessorsTerminate ==
    /\ result.op \in {"height_msl", "slp", "best_slp"} => CameBack
    /\ \A l \in EntryLayers :
           /\ l = "NearSurface"
           /\ Reducible(l)
           /\ result = Call("slp", slp(entry.layers[l].val, latitude))
           => result.val.tag = "Some"

\* ------------------------------- properties: quasi-calculated fields

\* Neither a dewpoint nor a relative humidity is held by the backing.
NeitherNative == backing.dewpoint = None /\ backing.relative_humidity = None

\* C28: dewpoint() and relative_humidity() return for every backing and
\* every combination of present and absent temperature, dewpoint and
\* relative humidity, and both are absent when neither is held natively.
C28_QuasiPairTerminates ==
    result.op \in {"dewpoint", "relative_humidity"} =>
        /\ result.val.tag # "StackOverflow"
        /\ NeitherNative => result.val = None

\* ---------------------------------- properties: categories of parse_code

\* The tokens that define each category of present weather.
TokensOf(category) ==
    CASE category = "rain"         -> {<<"R", "A">>, <<"D", "Z">>}
      [] category = "snow"         -> {<<"S", "N">>, <<"G", "S">>, <<"I", "C">>,
                                       <<"S", "G">>}
      [] category = "falling_ice"  -> {<<"P", "L">>, <<"G", "R">>}
      [] category = "dust"         -> {<<"D", "U">>, <<"D", "S">>}
      [] category = "sand"         -> {<<"S", "A">>, <<"P", "O">>, <<"S", "S">>}
      [] category = "funnel_cloud" -> {<<"F", "C">>}
      [] category = "unknown"      -> {<<"U", "P">>}

\* The token occurs in the code.
Occurs(token, text) ==
    \E i \in 1..Len(text) :
        /\ i + Len(token) - 1 <= Len(text)
        /\ SubSeq(text, i, i + Len(token) - 1) = token

\* C29: parse_code leaves a category at None when none of the category's
\* tokens occurs in the code; a code with GR and none of SA, PO, SS leaves
\* sand at None.
C29_IntensityFromOwnTokens ==
    result.op = "parse_code" =>
        \A category \in Categories :
            (\A token \in TokensOf(category) : ~Occurs(token, code))
                => result.val[category] = "None"

\* ----------------------------------------- properties: oktas of a sky cover

\* C30: oktas() returns one of 0, 1, 3, 6, 8 for every sky cover that
\* skycover_from_vecs makes of a row, a Cloudy without layers included, and
\* comfort_index does not panic on the observation.
C30_OktasTotal ==
    /\ result.op = "oktas" =>
          /\ result.val.tag = "Some"
          /\ result.val.val \in {0, 1, 3, 6, 8}
    /\ result.op = "comfort_index" => result.val.tag # "Panic"

====
